---- MODULE Spec2Model ----
(***************************************************************************)
(* Model of the Xero OAuth2 (authorization code + PKCE) integration       *)
(* backend: the xero-auth start handler, the xero-callback handler and the *)
(* xero-refresh handler, together with the browser's cookie jar and the    *)
(* provider's token and connections endpoints.                            *)
(*                                                                         *)
(* Strings are sequences of symbols.  A symbol is either one printable     *)
(* ASCII character ("a", "%", "&") or a word: a run of letters, digits,    *)
(* "-", "_" and "." written as one TLA+ string ("xero_auth").  Every       *)
(* character that an encoder or a parser treats specially is always a      *)
(* symbol of its own, so the encoders and parsers below act on symbols     *)
(* exactly as the JavaScript ones act on characters.                       *)
(***************************************************************************)
EXTENDS Integers, Sequences, FiniteSets, TLC

\* ------------------------------------------------------------------------
\* Bounds of the model
\* ------------------------------------------------------------------------

\* bytes drawn by crypto.randomBytes for state (16 in the source)
NStateBytes == 1
\* bytes drawn by crypto.randomBytes for the code verifier (32 in the source)
NVerifierBytes == 1
\* bytes of the digest of the stand-in for SHA-256 (32 in the source)
DigestBytes == 2
\* number of clock steps a behaviour may take
MaxTicks == 1
\* length of one clock step, in milliseconds: a little more than the life of
\* the correlation cookie
TickMs == 900500
\* the clock (Date.now(), epoch milliseconds) when a behaviour begins
StartOfTime == 1000

\* ------------------------------------------------------------------------
\* Characters
\* ------------------------------------------------------------------------

\* the printable ASCII characters, code 32 (space) to 126 (tilde); the grave
\* accent (code 96) is written "grave"
AsciiPrintable ==
  << " ", "!", "\"", "#", "$", "%", "&", "'", "(", ")", "*", "+", ",", "-", ".", "/",
     "0", "1", "2", "3", "4", "5", "6", "7", "8", "9", ":", ";", "<", "=", ">", "?",
     "@", "A", "B", "C", "D", "E", "F", "G", "H", "I", "J", "K", "L", "M", "N", "O",
     "P", "Q", "R", "S", "T", "U", "V", "W", "X", "Y", "Z", "[", "\\", "]", "^", "_",
     "grave", "a", "b", "c", "d", "e", "f", "g", "h", "i", "j", "k", "l", "m", "n", "o",
     "p", "q", "r", "s", "t", "u", "v", "w", "x", "y", "z", "{", "|", "}", "~" >>

Chars == { AsciiPrintable[i] : i \in 1..Len(AsciiPrintable) }

\* the character code of a one-character symbol
CharCode(c) == 31 + CHOOSE i \in 1..Len(AsciiPrintable) : AsciiPrintable[i] = c

Digits == { AsciiPrintable[i] : i \in 17..26 }
UpperLetters == { AsciiPrintable[i] : i \in 34..59 }
LowerLetters == { AsciiPrintable[i] : i \in 66..91 }
AlphaNum == Digits \cup UpperLetters \cup LowerLetters

HexLower == << "0", "1", "2", "3", "4", "5", "6", "7", "8", "9", "a", "b", "c", "d", "e", "f" >>
HexUpper == << "0", "1", "2", "3", "4", "5", "6", "7", "8", "9", "A", "B", "C", "D", "E", "F" >>

IsHexDigit(c) == \E i \in 1..16 : HexLower[i] = c \/ HexUpper[i] = c

HexValue(c) == (CHOOSE i \in 1..16 : HexLower[i] = c \/ HexUpper[i] = c) - 1

\* ------------------------------------------------------------------------
\* Sequences of symbols
\* ------------------------------------------------------------------------

\* the concatenation of the sequences of ss, by halves
RECURSIVE Flatten(_)
FlattenHalves(ss) ==
  IF ss = << >> THEN << >>
  ELSE IF Len(ss) = 1 THEN ss[1]
  ELSE Flatten(SubSeq(ss, 1, Len(ss) \div 2))
       \o Flatten(SubSeq(ss, (Len(ss) \div 2) + 1, Len(ss)))

\* the sequence of sequences is evaluated once, then flattened by halves
Flatten(ss) == CHOOSE flat \in { FlattenHalves(parts) : parts \in { ss } } : TRUE

\* index of the first occurrence of symbol c in s, 0 when there is none
IndexFrom(s, c, i) ==
  LET found == { j \in i..Len(s) : s[j] = c }
  IN IF found = {} THEN 0 ELSE CHOOSE j \in found : \A k \in found : j <= k

IndexOf(s, c) == IndexFrom(s, c, 1)

\* String.prototype.split on a one-character separator
RECURSIVE Split(_, _)
Split(s, c) ==
  LET i == IndexOf(s, c) IN
  IF i = 0 THEN << s >>
  ELSE << SubSeq(s, 1, i - 1) >> \o Split(SubSeq(s, i + 1, Len(s)), c)

\* String.prototype.trim, for the space character
RECURSIVE TrimLeft(_)
TrimLeft(s) == IF s # << >> /\ Head(s) = " " THEN TrimLeft(Tail(s)) ELSE s

RECURSIVE TrimRight(_)
TrimRight(s) ==
  IF s # << >> /\ s[Len(s)] = " " THEN TrimRight(SubSeq(s, 1, Len(s) - 1)) ELSE s

Trim(s) == TrimRight(TrimLeft(s))

\* String.prototype.replace(/c/g, r) for a one-character pattern
ReplaceAll(s, c, r) ==
  Flatten([i \in 1..Len(s) |-> IF s[i] = c THEN r ELSE << s[i] >>])

\* the decimal digits of a natural number (Number.prototype.toString)
RECURSIVE NumberToString(_)
NumberToString(n) ==
  IF n < 10 THEN << AsciiPrintable[17 + n] >>
  ELSE NumberToString(n \div 10) \o << AsciiPrintable[17 + (n % 10)] >>

\* ------------------------------------------------------------------------
\* Percent encoding
\* ------------------------------------------------------------------------

PercentEscape(c) ==
  << "%", HexUpper[(CharCode(c) \div 16) + 1], HexUpper[(CharCode(c) % 16) + 1] >>

\* characters encodeURIComponent leaves alone (ECMA-262: uriUnreserved)
UriUnreserved == AlphaNum \cup { "-", "_", ".", "!", "~", "*", "'", "(", ")" }

\* encodeURIComponent: words hold unreserved characters only
encodeURIComponent(s) ==
  Flatten([i \in 1..Len(s) |-> IF s[i] \in Chars /\ s[i] \notin UriUnreserved
                               THEN PercentEscape(s[i])
                               ELSE << s[i] >>])

\* the character of a code; a code outside the printable range is written "ctl"
CharOfCode(code) == IF code < 32 \/ code > 126 THEN "ctl" ELSE AsciiPrintable[code - 31]

\* the places of s where a "%" is followed by two hexadecimal digits; no two
\* of these escapes overlap, a hexadecimal digit being no "%"
EscapeStarts(s) ==
  { i \in 1..Len(s) :
      s[i] = "%" /\ i + 2 <= Len(s) /\ IsHexDigit(s[i + 1]) /\ IsHexDigit(s[i + 2]) }

EscapeCode(s, i) == 16 * HexValue(s[i + 1]) + HexValue(s[i + 2])

\* s with each escape replaced by the character of its code
Unescaped(s) ==
  LET starts == EscapeStarts(s)
      kept == SelectSeq([i \in 1..Len(s) |-> i],
                        LAMBDA i : (i - 1) \notin starts /\ (i - 2) \notin starts)
  IN [k \in 1..Len(kept) |-> IF kept[k] \in starts
                             THEN CharOfCode(EscapeCode(s, kept[k]))
                             ELSE s[kept[k]]]

\* decodeURIComponent: [ok |-> FALSE] stands for the URIError it throws on a
\* "%" that is not followed by two hexadecimal digits, or on an escape that is
\* not a complete UTF-8 sequence (here: any single escape of a code above 127)
decodeURIComponent(s) ==
  LET starts == EscapeStarts(s)
  IN IF \/ { i \in 1..Len(s) : s[i] = "%" } # starts
        \/ \E i \in starts : EscapeCode(s, i) > 127
     THEN [ok |-> FALSE, val |-> << >>]
     ELSE [ok |-> TRUE, val |-> Unescaped(s)]

\* ------------------------------------------------------------------------
\* JavaScript values that are a string, undefined or an array of strings:
\* << >> is undefined, << s >> is the string s, a longer tuple is an array
\* ------------------------------------------------------------------------

Undefined == << >>
Str(s) == << s >>
IsString(v) == Len(v) = 1
\* !v for a value that is a string or undefined
Falsy(v) == v = Undefined \/ v = Str(<< >>)
\* variant: the comparison is made only when the second value is defined
NotEqualWhenDefined(a, b) == b # Undefined /\ ~(Len(b) <= 1 /\ a = b)

\* a !== b, for a string or undefined a
StrictNotEqual(a, b) == ~(Len(b) <= 1 /\ a = b)
\* a || b
OrElse(a, b) == IF Falsy(a) THEN b ELSE a

\* ------------------------------------------------------------------------
\* querystring (Node)
\* ------------------------------------------------------------------------

\* unescapeBuffer: the lenient decoder, which keeps a malformed "%" as it is
unescapeBuffer(s) == Unescaped(s)

\* querystring.unescape, never throws
qsUnescape(s) ==
  LET d == decodeURIComponent(s) IN IF d.ok THEN d.val ELSE unescapeBuffer(s)

\* one key=value segment, "+" read as a space
qsPair(seg) ==
  LET i == IndexOf(seg, "=")
      k == IF i = 0 THEN seg ELSE SubSeq(seg, 1, i - 1)
      v == IF i = 0 THEN << >> ELSE SubSeq(seg, i + 1, Len(seg))
  IN [k |-> qsUnescape(ReplaceAll(k, "+", << " " >>)),
      v |-> qsUnescape(ReplaceAll(v, "+", << " " >>))]

RECURSIVE qsPairs(_)
qsPairs(segs) ==
  IF segs = << >> THEN << >>
  ELSE (IF Head(segs) = << >> THEN << >> ELSE << qsPair(Head(segs)) >>)
       \o qsPairs(Tail(segs))

\* querystring.parse: the key/value pairs in order of appearance
querystring_parse(s) == qsPairs(Split(s, "&"))

\* obj[key] of a parsed query: undefined, a string, or an array when repeated
RECURSIVE Field(_, _)
Field(pairs, key) ==
  IF pairs = << >> THEN << >>
  ELSE (IF Head(pairs).k = key THEN << Head(pairs).v >> ELSE << >>)
       \o Field(Tail(pairs), key)

\* querystring.escape
qsEscape(s) == encodeURIComponent(s)

\* one key of querystring.stringify: undefined gives "key=", an array repeats the key
RECURSIVE qsStringifyKey(_, _)
qsStringifyKey(k, v) ==
  IF v = Undefined THEN qsEscape(k) \o << "=" >>
  ELSE qsEscape(k) \o << "=" >> \o qsEscape(Head(v))
       \o (IF Len(v) = 1 THEN << >> ELSE << "&" >> \o qsStringifyKey(k, Tail(v)))

\* querystring.stringify of the object with the given keys, in order
RECURSIVE querystring_stringify(_)
querystring_stringify(obj) ==
  IF obj = << >> THEN << >>
  ELSE qsStringifyKey(Head(obj).k, Head(obj).v)
       \o (IF Len(obj) = 1 THEN << >> ELSE << "&" >> \o querystring_stringify(Tail(obj)))

\* ------------------------------------------------------------------------
\* cookie (npm)
\* ------------------------------------------------------------------------

\* tryDecode: decodeURIComponent, the raw value when it throws
tryDecode(s) == LET d == decodeURIComponent(s) IN IF d.ok THEN d.val ELSE s

\* one "key=value" pair of a Cookie header; no pair when there is no "="
cookiePair(pair) ==
  LET i == IndexOf(pair, "=")
      key == Trim(SubSeq(pair, 1, i - 1))
      raw == Trim(SubSeq(pair, i + 1, Len(pair)))
      val == IF raw # << >> /\ Head(raw) = "\"" THEN SubSeq(raw, 2, Len(raw) - 1) ELSE raw
  IN IF i = 0 THEN << >> ELSE << [k |-> key, v |-> tryDecode(val)] >>

RECURSIVE cookiePairs(_)
cookiePairs(pairs) ==
  IF pairs = << >> THEN << >> ELSE cookiePair(Head(pairs)) \o cookiePairs(Tail(pairs))

\* cookie.parse: the pairs of the header in order
cookie_parse(header) == cookiePairs(Split(header, ";"))

\* cookies[name]: the first pair of that name wins; undefined when there is none
CookieValue(cookies, name) ==
  LET vs == Field(cookies, name) IN IF vs = << >> THEN Undefined ELSE Str(Head(vs))

\* ------------------------------------------------------------------------
\* URLSearchParams (WHATWG application/x-www-form-urlencoded serializer)
\* ------------------------------------------------------------------------

UrlencodedUnreserved == AlphaNum \cup { "*", "-", ".", "_" }

urlencodedSerialize(s) ==
  Flatten([i \in 1..Len(s) |-> IF s[i] = " " THEN << "+" >>
                               ELSE IF s[i] \in Chars /\ s[i] \notin UrlencodedUnreserved
                               THEN PercentEscape(s[i])
                               ELSE << s[i] >>])

\* URL.toString() after searchParams.append of the pairs, in order
RECURSIVE searchParamsToString(_)
searchParamsToString(pairs) ==
  IF pairs = << >> THEN << >>
  ELSE urlencodedSerialize(Head(pairs).k) \o << "=" >> \o urlencodedSerialize(Head(pairs).v)
       \o (IF Len(pairs) = 1 THEN << >> ELSE << "&" >> \o searchParamsToString(Tail(pairs)))

\* ------------------------------------------------------------------------
\* Buffer and crypto
\* ------------------------------------------------------------------------

\* Buffer.toString('hex')
RECURSIVE toHex(_)
toHex(bytes) ==
  IF bytes = << >> THEN << >>
  ELSE << HexLower[(Head(bytes) \div 16) + 1], HexLower[(Head(bytes) % 16) + 1] >>
       \o toHex(Tail(bytes))

\* Buffer.from(string): the bytes of a string of one-character symbols
RECURSIVE bytesOf(_)
bytesOf(s) == IF s = << >> THEN << >> ELSE << CharCode(Head(s)) >> \o bytesOf(Tail(s))

Base64Alphabet ==
  << "A", "B", "C", "D", "E", "F", "G", "H", "I", "J", "K", "L", "M", "N", "O", "P",
     "Q", "R", "S", "T", "U", "V", "W", "X", "Y", "Z", "a", "b", "c", "d", "e", "f",
     "g", "h", "i", "j", "k", "l", "m", "n", "o", "p", "q", "r", "s", "t", "u", "v",
     "w", "x", "y", "z", "0", "1", "2", "3", "4", "5", "6", "7", "8", "9", "+", "/" >>

\* Buffer.toString('base64') and Hash.digest('base64'): padded standard base64
RECURSIVE toBase64(_)
toBase64(bytes) ==
  IF bytes = << >> THEN << >>
  ELSE IF Len(bytes) = 1 THEN
    LET n == bytes[1] * 16 IN
    << Base64Alphabet[(n \div 64) + 1], Base64Alphabet[(n % 64) + 1], "=", "=" >>
  ELSE IF Len(bytes) = 2 THEN
    LET n == (bytes[1] * 256 + bytes[2]) * 4 IN
    << Base64Alphabet[(n \div 4096) + 1], Base64Alphabet[((n \div 64) % 64) + 1],
       Base64Alphabet[(n % 64) + 1], "=" >>
  ELSE
    LET n == bytes[1] * 65536 + bytes[2] * 256 + bytes[3] IN
    << Base64Alphabet[(n \div 262144) + 1], Base64Alphabet[((n \div 4096) % 64) + 1],
       Base64Alphabet[((n \div 64) % 64) + 1], Base64Alphabet[(n % 64) + 1] >>
    \o toBase64(SubSeq(bytes, 4, Len(bytes)))

\* crypto.createHash('sha256').update(s).digest(): SHA-256 itself is not
\* modelled; a fixed deterministic function of the message of DigestBytes
\* bytes stands for it
RECURSIVE WeightedSum(_, _, _)
WeightedSum(s, j, w) ==
  IF j > Len(s) THEN 0 ELSE CharCode(s[j]) * (j + w) + WeightedSum(s, j + 1, w)

sha256(s) == [i \in 1..DigestBytes |-> (WeightedSum(s, 1, 2 * i) + 89 * i) % 256]

\* ------------------------------------------------------------------------
\* JSON.stringify
\* ------------------------------------------------------------------------

\* a JSON string literal: the quote and the backslash are escaped
RECURSIVE jsonEscape(_)
jsonEscape(s) ==
  IF s = << >> THEN << >>
  ELSE (IF Head(s) = "\"" \/ Head(s) = "\\" THEN << "\\", Head(s) >> ELSE << Head(s) >>)
       \o jsonEscape(Tail(s))

jsonString(s) == << "\"" >> \o jsonEscape(s) \o << "\"" >>

\* the members of an object literal whose values are strings or undefined:
\* a member whose value is undefined is left out
RECURSIVE jsonMembers(_)
jsonMembers(obj) ==
  IF obj = << >> THEN << >>
  ELSE (IF Head(obj).v = Undefined THEN << >>
        ELSE << jsonString(Head(obj).k) \o << ":" >> \o Head(obj).v >>)
       \o jsonMembers(Tail(obj))

RECURSIVE Join(_, _)
Join(parts, sep) ==
  IF parts = << >> THEN << >>
  ELSE IF Len(parts) = 1 THEN Head(parts)
  ELSE Head(parts) \o sep \o Join(Tail(parts), sep)

\* the line console.log and console.error write for these arguments
ConsoleLine(args) == Join(args, << " " >>)

\* JSON.stringify of an object: obj is the sequence of [k, v], v the JSON text
\* of the value or Undefined
jsonObject(obj) == << "{" >> \o Join(jsonMembers(obj), << "," >>) \o << "}" >>

jsonArray(items) == << "[" >> \o Join(items, << "," >>) \o << "]" >>

\* the JSON text of a value that is a string or undefined
jsonOfString(v) == IF v = Undefined THEN Undefined ELSE jsonString(Head(v))

\* ------------------------------------------------------------------------
\* HTTP responses of the handlers and calls to the provider
\* ------------------------------------------------------------------------

\* the headers of a response are name/value pairs in the order of the literal
Header(name, value) == [name |-> name, value |-> value]

RECURSIVE HeaderValues(_, _)
HeaderValues(headers, name) ==
  IF headers = << >> THEN << >>
  ELSE (IF Head(headers).name = name THEN << Head(headers).value >> ELSE << >>)
       \o HeaderValues(Tail(headers), name)

NoResponse == [statusCode |-> 0, headers |-> << >>, body |-> Undefined]

\* a template literal ${v} for a value that is a string or undefined
TemplateString(v) == IF v = Undefined THEN << "undefined" >> ELSE Head(v)

\* variant: the base URL of the callback has no default
redirectUriNoDefault(envv) ==
  TemplateString(envv.URL) \o << "/", ".netlify", "/", "functions", "/", "xero-callback" >>

\* the redirect URI of the callback handler:
\* process.env.URL || 'http://localhost:8888', then the callback path
redirectUri(envv) ==
  OrElse(envv.URL, Str(<< "http", ":", "/", "/", "localhost", ":", "8888" >>))[1]
  \o << "/", ".netlify", "/", "functions", "/", "xero-callback" >>

\* 'Basic ' + Buffer.from(clientId + ':' + clientSecret).toString('base64')
basicAuthorization(clientId, clientSecret) ==
  << "Basic", " " >> \o toBase64(bytesOf(clientId \o << ":" >> \o clientSecret))

TokenUrl == << "https", ":", "/", "/", "identity.xero.com", "/", "connect", "/", "token" >>
ConnectionsUrl == << "https", ":", "/", "/", "api.xero.com", "/", "connections" >>

\* a call made with node-fetch
Call(method, url, authorization, body) ==
  [method |-> method, url |-> url, authorization |-> authorization, body |-> body]

\* error.message of the FetchError node-fetch rejects with when the request fails
fetchErrorMessage(url) == << "request", " ", "to", " " >> \o url \o << " ", "failed" >>

\* error.message of the FetchError of response.json() on a body that is not JSON
jsonErrorMessage(url) ==
  << "invalid", " ", "json", " ", "response", " ", "body", " ", "at", " " >> \o url

\* ------------------------------------------------------------------------
\* xero-auth: the start of an authorization attempt
\* ------------------------------------------------------------------------

\* Date.prototype.toUTCString keeps whole seconds; the date is written as the
\* number of seconds since the epoch followed by " GMT"
toUTCString(ms) == NumberToString(ms \div 1000) \o << " ", "GMT" >>

\* variant: the padding of the digest is kept
codeChallengePadded(codeVerifier) ==
  ReplaceAll(ReplaceAll(toBase64(sha256(codeVerifier)), "+", << "-" >>), "/", << "_" >>)

\* the PKCE code challenge of a verifier
codeChallenge(codeVerifier) ==
  ReplaceAll(ReplaceAll(ReplaceAll(toBase64(sha256(codeVerifier)),
                                   "+", << "-" >>), "/", << "_" >>), "=", << >>)

\* variant: the lifetime of the cookie is counted in seconds
cookieExpiresDateOfSeconds(t) == t + 60 * 15

\* the expiry of the correlation cookie, in epoch milliseconds
cookieExpiresDate(t) == t + 1000 * 60 * 15

cookieValue(state, codeVerifier) ==
  << "state", "=" >> \o state \o << "&", "code_verifier", "=" >> \o codeVerifier

cookieHeader(state, codeVerifier, t) ==
  << "xero_auth", "=" >> \o encodeURIComponent(cookieValue(state, codeVerifier))
  \o << ";", " ", "Path", "=", "/", ";", " ", "Expires", "=" >>
  \o toUTCString(cookieExpiresDate(t))
  \o << ";", " ", "SameSite", "=", "Lax", ";", " ", "HttpOnly", ";", " ", "Secure" >>

scope ==
  << "openid", " ", "profile", " ", "email", " ", "offline_access", " ",
     "accounting.transactions.read", " ", "accounting.settings.read" >>

xeroAuthUrl(clientId, uri, state, challenge) ==
  << "https", ":", "/", "/", "login.xero.com", "/", "identity", "/", "connect", "/",
     "authorize", "?" >>
  \o searchParamsToString(<<
       [k |-> << "client_id" >>, v |-> clientId],
       [k |-> << "response_type" >>, v |-> << "code" >>],
       [k |-> << "redirect_uri" >>, v |-> uri],
       [k |-> << "scope" >>, v |-> scope],
       [k |-> << "state" >>, v |-> state],
       [k |-> << "code_challenge" >>, v |-> challenge],
       [k |-> << "code_challenge_method" >>, v |-> << "S256" >>] >>)

\* the base URL and the redirect URI of the start handler
baseUrl(envv) == OrElse(envv.URL, Str(<< "http", ":", "/", "/", "localhost", ":", "8888" >>))[1]

authRedirectUri(envv) ==
  baseUrl(envv) \o << "/", ".netlify", "/", "functions", "/", "xero-callback" >>

\* the JSON body of the catch blocks: { error: 'Server error', message }
serverErrorBody(message) ==
  Str(jsonObject(<< [k |-> << "error" >>, v |-> jsonString(<< "Server", " ", "error" >>)],
                    [k |-> << "message" >>, v |-> jsonString(message)] >>))

\* variant: the client identifier is used without a look at it
xeroAuthHandlerUnchecked(envv, t, stateBytes, verifierBytes) ==
  [statusCode |-> 302,
   headers |-> <<
     Header("Location",
            xeroAuthUrl(TemplateString(envv.XERO_CLIENT_ID), authRedirectUri(envv),
                        toHex(stateBytes), codeChallenge(toHex(verifierBytes)))),
     Header("Set-Cookie", cookieHeader(toHex(stateBytes), toHex(verifierBytes), t)),
     Header("Cache-Control", << "no-cache" >>) >>,
   body |-> Undefined]

\* exports.handler of xero-auth.js, given the bytes crypto.randomBytes returns
xeroAuthHandler(envv, t, stateBytes, verifierBytes) ==
  LET clientId == envv.XERO_CLIENT_ID
      state == toHex(stateBytes)
      codeVerifier == toHex(verifierBytes)
  IN IF Falsy(clientId)
     THEN [statusCode |-> 500,
           headers |-> << Header("Content-Type", << "application", "/", "json" >>) >>,
           body |-> serverErrorBody(<< "Missing", " ", "XERO_CLIENT_ID", " ",
                                       "environment", " ", "variable" >>)]
     ELSE [statusCode |-> 302,
           headers |-> <<
             Header("Location",
                    xeroAuthUrl(clientId[1], authRedirectUri(envv), state,
                                codeChallenge(codeVerifier))),
             Header("Set-Cookie", cookieHeader(state, codeVerifier, t)),
             Header("Cache-Control", << "no-cache" >>) >>,
           body |-> Undefined]

\* the lines xero-auth writes to the console
xeroAuthLogs(envv, t, stateBytes, verifierBytes) ==
  LET clientId == envv.XERO_CLIENT_ID
      called == << "xero-auth", " ", "function", " ", "called" >>
      missing == << "Missing", " ", "XERO_CLIENT_ID", " ", "environment", " ", "variable" >>
  IN IF Falsy(clientId)
     THEN << called, missing,
             ConsoleLine(<< << "Error", " ", "in", " ", "xero-auth", " ", "function", ":" >>,
                            missing >>) >>
     ELSE << called,
             ConsoleLine(<< << "Using", " ", "client", " ", "ID", ":" >>, clientId[1] >>),
             ConsoleLine(<< << "Using", " ", "redirect", " ", "URI", ":" >>,
                            authRedirectUri(envv) >>),
             ConsoleLine(<< << "Redirecting", " ", "to", " ", "Xero", " ", "auth", " ",
                               "URL", ":" >>,
                            xeroAuthUrl(clientId[1], authRedirectUri(envv),
                                        toHex(stateBytes),
                                        codeChallenge(toHex(verifierBytes))) >>) >>

\* ------------------------------------------------------------------------
\* The browser: its cookie jar, fed by the Set-Cookie headers it receives
\* ------------------------------------------------------------------------

RECURSIVE StringToNumber(_)
StringToNumber(s) ==
  IF s = << >> THEN 0
  ELSE 10 * StringToNumber(SubSeq(s, 1, Len(s) - 1)) + (CharCode(s[Len(s)]) - 48)

\* the instant an Expires attribute written by toUTCString names, in epoch ms
parseDate(s) == 1000 * StringToNumber(SubSeq(s, 1, IndexOf(s, " ") - 1))

\* the value of the attribute of that name among the attributes of a
\* Set-Cookie header, as a string or undefined
RECURSIVE AttributeValue(_, _)
AttributeValue(attrs, name) ==
  IF attrs = << >> THEN Undefined
  ELSE LET a == Trim(Head(attrs))
           i == IndexOf(a, "=")
       IN IF i > 0 /\ SubSeq(a, 1, i - 1) = name
          THEN Str(SubSeq(a, i + 1, Len(a)))
          ELSE AttributeValue(Tail(attrs), name)

\* a Set-Cookie header as the browser reads it: a cookie without Expires
\* lives for the session
parseSetCookie(h) ==
  LET parts == Split(h, ";")
      nv == Trim(Head(parts))
      i == IndexOf(nv, "=")
      exp == AttributeValue(Tail(parts), << "Expires" >>)
  IN [name |-> SubSeq(nv, 1, i - 1),
      value |-> SubSeq(nv, i + 1, Len(nv)),
      session |-> exp = Undefined,
      expires |-> IF exp = Undefined THEN 0 ELSE parseDate(exp[1])]

Live(c, t) == c.session \/ c.expires > t

RECURSIVE WithoutCookie(_, _)
WithoutCookie(jar0, name) ==
  IF jar0 = << >> THEN << >>
  ELSE (IF Head(jar0).name = name THEN << >> ELSE << Head(jar0) >>)
       \o WithoutCookie(Tail(jar0), name)

\* a jar that keeps the cookie it already holds beside the new one of its name
storeCookieBeside(jar0, h, t) ==
  LET c == parseSetCookie(h) IN
  jar0 \o (IF Live(c, t) THEN << c >> ELSE << >>)

\* the jar after one Set-Cookie header: the cookie replaces the one of the
\* same name, and a cookie that has already expired only removes it
storeCookie(jar0, h, t) ==
  LET c == parseSetCookie(h) IN
  WithoutCookie(jar0, c.name) \o (IF Live(c, t) THEN << c >> ELSE << >>)

RECURSIVE storeCookies(_, _, _)
storeCookies(jar0, hs, t) ==
  IF hs = << >> THEN jar0 ELSE storeCookies(storeCookie(jar0, Head(hs), t), Tail(hs), t)

\* the jar after a response
browserReceive(jar0, resp, t) == storeCookies(jar0, HeaderValues(resp.headers, "Set-Cookie"), t)

RECURSIVE liveCookies(_, _)
liveCookies(jar0, t) ==
  IF jar0 = << >> THEN << >>
  ELSE (IF Live(Head(jar0), t) THEN << Head(jar0).name \o << "=" >> \o Head(jar0).value >>
        ELSE << >>) \o liveCookies(Tail(jar0), t)

\* the Cookie header the browser sends: undefined when it holds no live cookie
browserCookieHeader(jar0, t) ==
  LET cs == liveCookies(jar0, t) IN
  IF cs = << >> THEN Undefined ELSE Str(Join(cs, << ";", " " >>))

\* ------------------------------------------------------------------------
\* xero-callback: the exchange of the authorization code
\* ------------------------------------------------------------------------

\* variant: the message is put in the URL as it is
redirectWithErrorRaw(message) ==
  [statusCode |-> 302,
   headers |-> << Header("Location",
                         << "/", "?", "auth", "=", "error", "&", "message", "=" >>
                         \o message),
                  Header("Cache-Control", << "no-cache" >>) >>,
   body |-> Undefined]

redirectWithError(message) ==
  [statusCode |-> 302,
   headers |-> << Header("Location",
                         << "/", "?", "auth", "=", "error", "&", "message", "=" >>
                         \o encodeURIComponent(message)),
                  Header("Cache-Control", << "no-cache" >>) >>,
   body |-> Undefined]

\* the catch block of the callback handler
callbackCatch(message) == redirectWithError(<< "Server", " ", "error", ":", " " >> \o message)

\* the line the catch block of the callback handler writes: the error is
\* written as its message, and its stack, which holds no data, is left out
callbackCatchLine(message) ==
  ConsoleLine(<< << "Error", " ", "in", " ", "Xero", " ", "callback", " ", "function", ":" >>,
                 message >>)

\* a handler that has returned resp
Returned(calls, tokenData, resp) ==
  [pc |-> "done", calls |-> calls, tokenData |-> tokenData, resp |-> resp, logs |-> << >>]

\* a handler waiting, at pc, for the answer to its last call
Awaiting(pc, calls, tokenData) ==
  [pc |-> pc, calls |-> calls, tokenData |-> tokenData, resp |-> NoResponse,
   logs |-> << >>]

\* a step of a handler that wrote these lines to the console on its way
Logged(lines, step) == [step EXCEPT !.logs = lines \o @]

NoTokenData ==
  [access_token |-> Undefined, refresh_token |-> Undefined, expires_in |-> << >>]

\* the POST of the authorization code to the token endpoint
tokenRequest(clientId, clientSecret, code, uri, codeVerifier) ==
  Call("POST", TokenUrl, basicAuthorization(clientId, clientSecret),
       querystring_stringify(<<
         [k |-> << "grant_type" >>, v |-> Str(<< "authorization_code" >>)],
         [k |-> << "code" >>, v |-> code],
         [k |-> << "redirect_uri" >>, v |-> Str(uri)],
         [k |-> << "code_verifier" >>, v |-> codeVerifier] >>))

\* the handler from its entry to its first await: the checks of the request
callbackBegin(req, envv) ==
  LET params == req.params
      code == params.code
      receivedState == params.state
      cookies == cookie_parse(OrElse(req.cookie, Str(<< >>))[1])
      xeroCookie == CookieValue(cookies, << "xero_auth" >>)
      decoded == decodeURIComponent(xeroCookie[1])
      cookieData == querystring_parse(decoded.val)
      storedState == Field(cookieData, << "state" >>)
      codeVerifier == Field(cookieData, << "code_verifier" >>)
      clientId == envv.XERO_CLIENT_ID
      clientSecret == envv.XERO_CLIENT_SECRET
      received == << "Xero", " ", "callback", " ", "received" >>
      exit(line, message) ==
        Logged(<< received, line >>,
               Returned(<< >>, NoTokenData, redirectWithError(message)))
  IN IF ~Falsy(params.error) THEN
       exit(ConsoleLine(<< << "Xero", " ", "auth", " ", "error", ":" >>,
                           TemplateString(params.error),
                           TemplateString(params.error_description) >>),
            << "Authentication", " ", "error", ":", " " >>
            \o OrElse(params.error_description, params.error)[1])
     ELSE IF Falsy(code) THEN
       exit(<< "No", " ", "authorization", " ", "code", " ", "received", " ", "from",
               " ", "Xero" >>,
            << "No", " ", "authorization", " ", "code", " ", "received", " ", "from",
               " ", "Xero" >>)
     ELSE IF Falsy(receivedState) THEN
       exit(<< "No", " ", "state", " ", "parameter", " ", "received", " ", "from", " ",
               "Xero" >>,
            << "Invalid", " ", "authentication", " ", "request", " ", "(", "missing",
               " ", "state", ")" >>)
     ELSE IF Falsy(xeroCookie) THEN
       exit(<< "No", " ", "auth", " ", "cookie", " ", "found" >>,
            << "Authentication", " ", "session", " ", "expired", " ", "or", " ",
               "invalid" >>)
     ELSE IF ~decoded.ok THEN
       Logged(<< received, callbackCatchLine(<< "URI", " ", "malformed" >>) >>,
              Returned(<< >>, NoTokenData, callbackCatch(<< "URI", " ", "malformed" >>)))
     ELSE IF StrictNotEqual(receivedState, storedState) THEN
       exit(<< "State", " ", "parameter", " ", "mismatch", ",", " ", "possible", " ",
               "CSRF", " ", "attack" >>,
            << "Invalid", " ", "authentication", " ", "request", " ", "(", "state",
               " ", "mismatch", ")" >>)
     ELSE IF Falsy(clientId) \/ Falsy(clientSecret) THEN
       exit(<< "Missing", " ", "Xero", " ", "client", " ", "credentials", " ", "in", " ",
               "environment", " ", "variables" >>,
            << "Server", " ", "configuration", " ", "error", " ", "(", "missing", " ",
               "Xero", " ", "credentials", ")" >>)
     ELSE
       Logged(<< received,
                 << "Exchanging", " ", "authorization", " ", "code", " ", "for", " ",
                    "tokens" >> >>,
              Awaiting("token",
                       << tokenRequest(clientId[1], clientSecret[1], code,
                                       redirectUri(envv), codeVerifier) >>,
                       NoTokenData))

\* response.ok of node-fetch
responseOk(status) == status >= 200 /\ status < 300

\* variant: only a server error counts as a failure
tokenResponseOkBelow500(r) == r.status < 500

\* !tokenResponse.ok is the negation of this
tokenResponseOk(r) == responseOk(r.status)

\* variant: the status of the answer is not looked at
userInfoResponseUnchecked(r) == TRUE

\* !userInfoResponse.ok is the negation of this
userInfoResponseOk(r) == responseOk(r.status)

\* variant: a failed request to the token endpoint is made once more
tokenFetchRetried(inv0) ==
  IF Len(inv0.calls) < 2
  THEN [pc |-> "token", calls |-> inv0.calls \o << inv0.calls[1] >>,
        tokenData |-> inv0.tokenData, resp |-> inv0.resp, logs |-> << >>]
  ELSE [pc |-> "done", calls |-> inv0.calls, tokenData |-> inv0.tokenData,
        resp |-> redirectWithError(<< "Server", " ", "error" >>), logs |-> << >>]

\* the fetch of the token endpoint rejects: the catch block answers
tokenFetchFailed(inv0) ==
  Logged(<< callbackCatchLine(fetchErrorMessage(TokenUrl)) >>,
         Returned(inv0.calls, NoTokenData, callbackCatch(fetchErrorMessage(TokenUrl))))

\* the GET of the connections with the access token just obtained
connectionsRequest(tokenData) ==
  Call("GET", ConnectionsUrl,
       << "Bearer", " " >> \o TemplateString(tokenData.access_token), << >>)

\* the handler from the answer of the token endpoint to its next await
callbackOnToken(inv0, r) ==
  IF r.fail THEN tokenFetchFailed(inv0)
  ELSE IF ~tokenResponseOk(r) THEN
    Logged(<< ConsoleLine(<< << "Token", " ", "exchange", " ", "failed", ":" >>,
                             NumberToString(r.status), r.text >>) >>,
           Returned(inv0.calls, NoTokenData,
                    redirectWithError(<< "Failed", " ", "to", " ", "exchange", " ", "code",
                                         " ", "for", " ", "tokens", " ", "(" >>
                                      \o NumberToString(r.status) \o << ")" >>)))
  ELSE IF ~r.json THEN
    Logged(<< callbackCatchLine(jsonErrorMessage(TokenUrl)) >>,
           Returned(inv0.calls, NoTokenData, callbackCatch(jsonErrorMessage(TokenUrl))))
  ELSE
    Logged(<< << "Successfully", " ", "received", " ", "tokens", " ", "from", " ",
                 "Xero" >> >>,
           Awaiting("connections", inv0.calls \o << connectionsRequest(r.data) >>, r.data))

\* one element of orgData
orgDatum(conn) ==
  jsonObject(<< [k |-> << "tenantId" >>, v |-> jsonOfString(conn.tenantId)],
                [k |-> << "tenantName" >>,
                 v |-> jsonOfString(OrElse(conn.tenantName,
                                           Str(<< "Unnamed", " ", "Organization" >>)))] >>)

\* variant: the list is handed over last connection first
orgDataReversed(connections) ==
  [i \in 1..Len(connections) |-> orgDatum(connections[Len(connections) + 1 - i])]

RECURSIVE orgData(_)
orgData(connections) ==
  IF connections = << >> THEN << >>
  ELSE << orgDatum(Head(connections)) >> \o orgData(Tail(connections))

\* variant: the lifetime of the token is added as it is
expiresAtOfSeconds(t, tokenData) ==
  IF tokenData.expires_in = << >> THEN << >> ELSE << t + Head(tokenData.expires_in) >>

\* Date.now() + (tokenData.expires_in * 1000); not a number when expires_in is missing
expiresAt(t, tokenData) ==
  IF tokenData.expires_in = << >> THEN << >> ELSE << t + Head(tokenData.expires_in) * 1000 >>

\* JSON.stringify of a number, null for NaN
jsonOfNumber(n) == IF n = << >> THEN << "null" >> ELSE NumberToString(Head(n))

\* the token bundle handed to the client
tokenBundle(t, tokenData) ==
  jsonObject(<< [k |-> << "access_token" >>, v |-> jsonOfString(tokenData.access_token)],
                [k |-> << "refresh_token" >>, v |-> jsonOfString(tokenData.refresh_token)],
                [k |-> << "expires_at" >>, v |-> jsonOfNumber(expiresAt(t, tokenData))] >>)

\* the success redirect
successResponse(connections, tokenData, t) ==
  LET tenantId == IF Len(connections) > 0 THEN connections[1].tenantId ELSE Undefined
      tenantName == IF Len(connections) > 0 THEN connections[1].tenantName
                    ELSE Str(<< "Unknown", " ", "Organization" >>)
  IN [statusCode |-> 302,
      headers |-> <<
        Header("Location",
               << "/", "?", "auth", "=", "success", "&", "tenantName", "=" >>
               \o encodeURIComponent(OrElse(tenantName, Str(<< "Unknown" >>))[1])
               \o << "&", "tenantId", "=" >>
               \o encodeURIComponent(OrElse(tenantId, Str(<< >>))[1])
               \o << "&", "multipleOrgs", "=" >>
               \o (IF Len(connections) > 1 THEN << "true" >> ELSE << "false" >>)
               \o << "&", "tenants", "=" >>
               \o encodeURIComponent(jsonArray(orgData(connections)))
               \o << "&", "tokens", "=" >>
               \o encodeURIComponent(tokenBundle(t, tokenData))),
        Header("Cache-Control", << "no-cache" >>) >>,
      body |-> Undefined]

\* the handler from the answer of the connections endpoint to its return
callbackOnConnections(inv0, r, t) ==
  IF r.fail THEN
    Logged(<< callbackCatchLine(fetchErrorMessage(ConnectionsUrl)) >>,
           Returned(inv0.calls, inv0.tokenData,
                    callbackCatch(fetchErrorMessage(ConnectionsUrl))))
  ELSE IF ~userInfoResponseOk(r) THEN
    Logged(<< ConsoleLine(<< << "Failed", " ", "to", " ", "get", " ", "user", " ", "info",
                                ":" >>,
                             NumberToString(r.status) >>) >>,
           Returned(inv0.calls, inv0.tokenData,
                    redirectWithError(<< "Connected", " ", "to", " ", "Xero", ",", " ",
                                         "but", " ", "failed", " ", "to", " ", "get", " ",
                                         "user", " ", "details" >>)))
  ELSE IF ~r.json THEN
    Logged(<< callbackCatchLine(jsonErrorMessage(ConnectionsUrl)) >>,
           Returned(inv0.calls, inv0.tokenData,
                    callbackCatch(jsonErrorMessage(ConnectionsUrl))))
  ELSE
    Logged(<< ConsoleLine(<< << "Found" >>, NumberToString(Len(r.data)),
                             << "Xero", " ", "connections" >> >>),
              << "Authentication", " ", "successful", ",", " ", "redirecting", " ", "to",
                 " ", "app" >>,
              << "Redirecting", " ", "with", " ", "tenant", " ", "data", " ", "in", " ",
                 "URL", " ", "params" >> >>,
           Returned(inv0.calls, inv0.tokenData,
                    successResponse(r.data, inv0.tokenData, t)))

\* ------------------------------------------------------------------------
\* JSON.parse, for texts without white space whose objects hold string members
\* ------------------------------------------------------------------------

SyntaxError == [ok |-> FALSE, val |-> << >>, rest |-> << >>]

\* the string literal whose opening quote has been read
RECURSIVE jsonScanString(_, _)
jsonScanString(s, acc) ==
  IF s = << >> THEN SyntaxError
  ELSE IF Head(s) = "\"" THEN [ok |-> TRUE, val |-> acc, rest |-> Tail(s)]
  ELSE IF Head(s) = "\\" THEN
    IF Len(s) >= 2 /\ s[2] \in { "\"", "\\", "/" }
    THEN jsonScanString(SubSeq(s, 3, Len(s)), acc \o << s[2] >>)
    ELSE SyntaxError
  ELSE jsonScanString(Tail(s), acc \o << Head(s) >>)

jsonReadString(s) ==
  IF s # << >> /\ Head(s) = "\"" THEN jsonScanString(Tail(s), << >>) ELSE SyntaxError

\* the members of an object after its opening brace or after a comma
RECURSIVE jsonReadMembers(_, _)
jsonReadMembers(s, acc) ==
  LET key == jsonReadString(s)
      val == jsonReadString(Tail(key.rest))
      got == acc \o << [k |-> key.val, v |-> val.val] >>
  IN IF ~key.ok \/ key.rest = << >> \/ Head(key.rest) # ":" THEN SyntaxError
     ELSE IF ~val.ok \/ val.rest = << >> THEN SyntaxError
     ELSE IF Head(val.rest) = "}" THEN [ok |-> TRUE, val |-> got, rest |-> Tail(val.rest)]
     ELSE IF Head(val.rest) = "," THEN jsonReadMembers(Tail(val.rest), got)
     ELSE SyntaxError

\* JSON.parse: [ok |-> FALSE] stands for the SyntaxError it throws; kind is
\* "object" (members holds the string members in order), "string" or "null"
JSON_parse(text) ==
  LET bad == [ok |-> FALSE, kind |-> "none", members |-> << >>]
      obj == IF Len(text) >= 2 /\ text[2] = "}"
             THEN [ok |-> TRUE, val |-> << >>, rest |-> SubSeq(text, 3, Len(text))]
             ELSE jsonReadMembers(Tail(text), << >>)
      str == jsonReadString(text)
  IN IF text = << >> THEN bad
     ELSE IF text = << "null" >> THEN [ok |-> TRUE, kind |-> "null", members |-> << >>]
     ELSE IF Head(text) = "{" THEN
       IF obj.ok /\ obj.rest = << >>
       THEN [ok |-> TRUE, kind |-> "object", members |-> obj.val] ELSE bad
     ELSE IF Head(text) = "\"" THEN
       IF str.ok /\ str.rest = << >>
       THEN [ok |-> TRUE, kind |-> "string", members |-> << >>] ELSE bad
     ELSE bad

\* value.name of a parsed value that is not null: the last member of that name
Member(value, name) ==
  LET vs == Field(value.members, name) IN
  IF vs = << >> THEN Undefined ELSE Str(vs[Len(vs)])

\* ------------------------------------------------------------------------
\* xero-refresh: the exchange of a refresh token
\* ------------------------------------------------------------------------

corsHeaders ==
  << Header("Access-Control-Allow-Origin", << "*" >>),
     Header("Access-Control-Allow-Headers", << "Content-Type" >>),
     Header("Access-Control-Allow-Methods", << "POST", ",", " ", "OPTIONS" >>) >>

\* a JSON answer { error: message } of the refresh handler
refreshError(statusCode, message) ==
  [statusCode |-> statusCode, headers |-> corsHeaders,
   body |-> Str(jsonObject(<< [k |-> << "error" >>, v |-> jsonString(message)] >>))]

\* the catch block of the refresh handler
refreshCatch(message) ==
  [statusCode |-> 500, headers |-> corsHeaders, body |-> serverErrorBody(message)]

\* the line the catch block of the refresh handler writes: the error is
\* written as its message, and its stack, which holds no data, is left out
refreshCatchLine(message) ==
  ConsoleLine(<< << "Error", " ", "in", " ", "xero-refresh", " ", "function", ":" >>,
                 message >>)

\* the JavaScript engines the function may be deployed on differ in the message
\* of the SyntaxError of JSON.parse: the older ones name the unexpected token
\* and its position, the newer ones quote the text as well
Runtimes == { "names the token", "quotes the text" }

\* error.message of the SyntaxError JSON.parse(text) throws. A text that begins
\* an object or a string ends too early; any other text has an unexpected token
\* at its start, and a text this short is quoted in full
syntaxErrorMessage(text, runtime) ==
  IF text # << >> /\ Head(text) \in { "{", "\"" }
  THEN << "Unexpected", " ", "end", " ", "of", " ", "JSON", " ", "input" >>
  ELSE IF runtime = "names the token"
  THEN << "Unexpected", " ", "token", " ", Head(text), " ", "in", " ", "JSON", " ", "at",
          " ", "position", " ", "0" >>
  ELSE << "Unexpected", " ", "token", " ", "'", Head(text), "'", ",", " ", "\"" >>
       \o text \o << "\"", " ", "is", " ", "not", " ", "valid", " ", "JSON" >>

\* error.message of the TypeError of requestData.refresh_token when requestData is null
nullErrorMessage ==
  << "Cannot", " ", "read", " ", "properties", " ", "of", " ", "null", " ", "(", "reading",
     " ", "'", "refresh_token", "'", ")" >>

\* the POST of the refresh token to the token endpoint
refreshRequest(clientId, clientSecret, refreshToken) ==
  Call("POST", TokenUrl, basicAuthorization(clientId, clientSecret),
       querystring_stringify(<<
         [k |-> << "grant_type" >>, v |-> Str(<< "refresh_token" >>)],
         [k |-> << "refresh_token" >>, v |-> refreshToken] >>))

\* variant: every method is let through
methodNotAllowedNever(req) == FALSE

\* event.httpMethod !== 'POST'
methodNotAllowed(req) == req.httpMethod # "POST"

\* the handler from its entry to its await
refreshBegin(req, envv, runtime) ==
  LET text == OrElse(req.body, Str(<< "{", "}" >>))[1]
      requestData == JSON_parse(text)
      refreshToken == Member(requestData, << "refresh_token" >>)
      clientId == envv.XERO_CLIENT_ID
      clientSecret == envv.XERO_CLIENT_SECRET
      return(resp) == Returned(<< >>, NoTokenData, resp)
      throw(message) ==
        Logged(<< refreshCatchLine(message) >>, return(refreshCatch(message)))
  IN IF req.httpMethod = "OPTIONS" THEN
       return([statusCode |-> 204, headers |-> corsHeaders, body |-> Undefined])
     ELSE IF methodNotAllowed(req) THEN
       return(refreshError(405, << "Method", " ", "not", " ", "allowed" >>))
     ELSE IF ~requestData.ok THEN
       throw(syntaxErrorMessage(text, runtime))
     ELSE IF requestData.kind = "null" THEN
       throw(nullErrorMessage)
     ELSE IF Falsy(refreshToken) THEN
       return(refreshError(400, << "Refresh", " ", "token", " ", "is", " ", "required" >>))
     ELSE IF Falsy(clientId) \/ Falsy(clientSecret) THEN
       return(refreshError(500, << "Missing", " ", "Xero", " ", "credentials" >>))
     ELSE
       Awaiting("refresh", << refreshRequest(clientId[1], clientSecret[1], refreshToken) >>,
                NoTokenData)

\* variant: a failure of the provider is answered like an exception
refreshFailedGeneric(r) ==
  [statusCode |-> 500, headers |-> corsHeaders,
   body |-> serverErrorBody(<< "Failed", " ", "to", " ", "refresh", " ", "token" >>)]

\* the answer to a non-2xx answer of the provider: its status, and its text
\* as details
refreshFailed(r) ==
  [statusCode |-> r.status, headers |-> corsHeaders,
   body |-> Str(jsonObject(<<
     [k |-> << "error" >>,
      v |-> jsonString(<< "Failed", " ", "to", " ", "refresh", " ", "token" >>)],
     [k |-> << "details" >>, v |-> jsonString(r.text)] >>))]

\* the handler from the answer of the token endpoint to its return
refreshOnToken(inv0, r, t) ==
  IF r.fail THEN
    Logged(<< refreshCatchLine(fetchErrorMessage(TokenUrl)) >>,
           Returned(inv0.calls, NoTokenData, refreshCatch(fetchErrorMessage(TokenUrl))))
  ELSE IF ~responseOk(r.status) THEN
    Logged(<< ConsoleLine(<< << "Token", " ", "refresh", " ", "failed", ":" >>,
                             NumberToString(r.status), r.text >>) >>,
           Returned(inv0.calls, NoTokenData, refreshFailed(r)))
  ELSE IF ~r.json THEN
    Logged(<< refreshCatchLine(jsonErrorMessage(TokenUrl)) >>,
           Returned(inv0.calls, NoTokenData, refreshCatch(jsonErrorMessage(TokenUrl))))
  ELSE
    Returned(inv0.calls, r.data,
             [statusCode |-> 200,
              headers |-> corsHeaders
                          \o << Header("Content-Type", << "application", "/", "json" >>) >>,
              body |-> Str(tokenBundle(t, r.data))])

\* ------------------------------------------------------------------------
\* xero-connections: the tenant recorded in the cookies of the session
\* ------------------------------------------------------------------------

connectionsCorsHeaders ==
  << Header("Access-Control-Allow-Origin", << "*" >>),
     Header("Access-Control-Allow-Headers", << "Content-Type" >>),
     Header("Access-Control-Allow-Methods", << "GET", ",", " ", "OPTIONS" >>) >>

\* a JSON answer { error, message } of the connections handler
connectionsError(statusCode, error, message) ==
  [statusCode |-> statusCode, headers |-> connectionsCorsHeaders,
   body |-> Str(jsonObject(<< [k |-> << "error" >>, v |-> jsonString(error)],
                              [k |-> << "message" >>, v |-> jsonString(message)] >>))]

\* variant: any value of the cookie counts
isAuthenticatedTruthy(cookies) == ~Falsy(CookieValue(cookies, << "xero_authenticated" >>))

\* cookies.xero_authenticated === 'true'
isAuthenticated(cookies) ==
  CookieValue(cookies, << "xero_authenticated" >>) = Str(<< "true" >>)

\* exports.handler of xero-connections.js; cookie.parse does not throw, so
\* the catch block is never entered
xeroConnectionsHandler(req) ==
  LET cookies == cookie_parse(OrElse(req.cookie, Str(<< >>))[1])
      tenantId == CookieValue(cookies, << "xero_tenant_id" >>)
      tenantName == CookieValue(cookies, << "xero_tenant_name" >>)
  IN IF req.httpMethod = "OPTIONS" THEN
       [statusCode |-> 204, headers |-> connectionsCorsHeaders, body |-> Undefined]
     ELSE IF ~isAuthenticated(cookies) THEN
       connectionsError(401, << "Unauthorized" >>,
                        << "Please", " ", "connect", " ", "to", " ", "Xero", " ", "first" >>)
     ELSE IF Falsy(tenantId) THEN
       connectionsError(404, << "Not", " ", "Found" >>,
                        << "No", " ", "Xero", " ", "organization", " ", "found", ".", " ",
                           "Please", " ", "reconnect", " ", "to", " ", "Xero", "." >>)
     ELSE
       [statusCode |-> 200,
        headers |-> connectionsCorsHeaders
                    \o << Header("Content-Type", << "application", "/", "json" >>) >>,
        body |-> Str(jsonArray(<< jsonObject(<<
          [k |-> << "tenantId" >>, v |-> jsonOfString(tenantId)],
          [k |-> << "tenantName" >>,
           v |-> jsonOfString(OrElse(tenantName,
                                     Str(<< "Xero", " ", "Organization" >>)))] >>) >>))]

\* ------------------------------------------------------------------------
\* Inputs: configuration, requests, and the answers of the provider
\* ------------------------------------------------------------------------

\* process.env as the handlers read it
Envs ==
  { e \in [XERO_CLIENT_ID : { Undefined, Str(<< "i", "d" >>) },
           XERO_CLIENT_SECRET : { Undefined, Str(<< "s", "k" >>) },
           URL : { Undefined, Str(<< "https", ":", "/", "/", "app.example" >>) }] :
      e.URL = Undefined => (e.XERO_CLIENT_ID # Undefined /\ e.XERO_CLIENT_SECRET # Undefined) }

\* the values of one byte that crypto.randomBytes may return
ByteValues == { 36, 185 }

RandomBytes(n) == [1..n -> ByteValues]

\* the values of state a callback may carry: every value a start may issue
States == { toHex(b) : b \in RandomBytes(NStateBytes) }

\* event.queryStringParameters of a callback
CallbackParams ==
  { p \in [error : { Undefined, Str(<< "access_denied" >>) },
           error_description :
             { Undefined, Str(<< "denied", "&", "auth", "=", "success" >>) },
           code : { Undefined, Str(<< "c", "/", "1" >>) },
           state : { Undefined, Str(<< >>) } \cup { Str(st) : st \in States }] :
      p.error = Undefined => p.error_description = Undefined }

\* Cookie headers of requests that do not come from the browser's jar
ForgedCookies ==
  { Undefined,
    Str(<< "xero_auth", "=", "%" >>),
    Str(<< "xero_auth", "=" >> \o encodeURIComponent(<< "code_verifier", "=", "f", "f" >>)),
    Str(<< "xero_auth", "=" >>
        \o encodeURIComponent(cookieValue(<< "2", "4" >>, << "c", "+", "d" >>))),
    Str(<< "xero_auth", "=" >>
        \o encodeURIComponent(<< "state", "=", "2", "4", "&", "state", "=", "2", "4" >>)) }

\* the tokens of a 2xx answer of the token endpoint
TokenDatas ==
  { [access_token |-> Str(<< "eyJ", ".", "a", "+", "1" >>),
     refresh_token |-> Str(<< "r", "/", "1", "=" >>),
     expires_in |-> << 1800 >>],
    NoTokenData }

UpstreamFailure == [fail |-> TRUE, status |-> 0, json |-> FALSE, data |-> NoTokenData,
                    text |-> << >>]

\* the answers of the token endpoint: a failed request, a 2xx answer with its
\* JSON value or with a body that is not JSON, and non-2xx answers with their text
TokenResponses ==
  { UpstreamFailure }
  \cup { [fail |-> FALSE, status |-> 200, json |-> TRUE, data |-> d, text |-> << >>] :
           d \in TokenDatas }
  \cup { [fail |-> FALSE, status |-> 200, json |-> FALSE, data |-> NoTokenData,
          text |-> << "<", "html", ">" >>] }
  \cup { [fail |-> FALSE, status |-> st, json |-> TRUE, data |-> NoTokenData,
          text |-> << "{", "\"", "error", "\"", ":", "\"", "invalid_grant", "\"", "}" >>] :
           st \in { 400, 500 } }

Tenants ==
  << [tenantId |-> Str(<< "T", "-", "1" >>),
      tenantName |-> Str(<< "A", "&", "B", " ", "\"", "Co", "\"" >>)],
     [tenantId |-> Str(<< "T", "-", "2" >>), tenantName |-> Undefined] >>

\* the answers of the connections endpoint
ConnectionsResponses ==
  { [fail |-> TRUE, status |-> 0, json |-> FALSE, data |-> << >>, text |-> << >>] }
  \cup { [fail |-> FALSE, status |-> 200, json |-> TRUE, data |-> d, text |-> << >>] :
           d \in { SubSeq(Tenants, 1, n) : n \in 0..Len(Tenants) }
                 \cup { << Tenants[2], Tenants[1] >> } }
  \cup { [fail |-> FALSE, status |-> 200, json |-> FALSE, data |-> << >>,
          text |-> << "<", "html", ">" >>],
         [fail |-> FALSE, status |-> 401, json |-> TRUE, data |-> << >>, text |-> << >>] }

\* the requests to the refresh handler
RefreshRequests ==
  [httpMethod : { "POST", "GET", "OPTIONS" },
   body : { Undefined,
            Str(<< "{", "}" >>),
            Str(<< "{" >>),
            Str(<< "null" >>),
            Str(<< "{", "\"", "refresh_token", "\"", ":", "\"", "\"", "}" >>),
            Str(<< "{", "\"", "refresh_token", "\"", ":", "\"", "r", "/", "1", "=", "\"",
                   "}" >>),
            Str(<< "r", "/", "1", "=" >>) }]

\* the cookies of the session, which are set out of band
SessionCookies ==
  LET authenticated == << "xero_authenticated", "=", "true" >>
      tenant == << ";", " ", "xero_tenant_id", "=", "T", "-", "1" >>
  IN { Undefined,
       Str(authenticated),
       Str(authenticated \o tenant),
       Str(authenticated \o tenant
           \o << ";", " ", "xero_tenant_name", "=", "Acme", "%", "2", "0", "Ltd" >>),
       Str(authenticated \o tenant \o << ";", " ", "xero_tenant_name", "=" >>),
       Str(authenticated \o << ";", " ", "xero_tenant_id", "=" >>),
       Str(<< "xero_authenticated", "=", "TRUE" >> \o tenant),
       Str(<< "xero_tenant_id", "=", "T", "-", "1" >>) }

\* the requests to the connections handler
ConnectionsRequests == [httpMethod : { "GET", "POST", "OPTIONS" }, cookie : SessionCookies]

\* ------------------------------------------------------------------------
\* State
\* ------------------------------------------------------------------------

VARIABLES
  now,        \* Date.now(), epoch milliseconds
  env,        \* process.env, fixed once the process has started
  jar,        \* the cookies the browser holds
  auth,       \* the last answer of xero-auth, with the state and verifier it drew
              \* and the time of the request
  exhausted,  \* a callback of the browser has completed since the last start
  inv,        \* the invocation of a function under way
  first,      \* the state and verifier of the attempt a later start has overtaken
  db,         \* the document store: its notes and reminders
  page        \* the notes module of the front end

vars == << now, env, jar, auth, exhausted, inv, first, db, page >>

\* what the authorization functions leave alone
elsewhere == << first, db, page >>

NoRequest == [none |-> TRUE]

Idle == [handler |-> "none", pc |-> "idle", req |-> NoRequest, calls |-> << >>,
         answers |-> << >>, tokenData |-> NoTokenData, resp |-> NoResponse, at |-> 0,
         logs |-> << >>]

NoAuth == [resp |-> NoResponse, state |-> << >>, codeVerifier |-> << >>, issuedAt |-> 0,
           logs |-> << >>]

\* no start has been overtaken
NoAttempt == [state |-> << >>, codeVerifier |-> << >>]

\* admin.firestore() was not obtained: db is null
NoDb == [available |-> FALSE, notes |-> << >>, reminders |-> << >>]

\* the notes module as it is loaded, with no fetch in flight
EmptyList == [items |-> << >>, error |-> FALSE, loading |-> FALSE]

LoadedPage ==
  [currentInvoiceId |-> Undefined, currentAccountNumber |-> Undefined,
   currentNotes |-> << >>, currentReminders |-> << >>,
   notesList |-> EmptyList, remindersList |-> EmptyList,
   fetches |-> {}, inits |-> 0]

Init ==
  /\ now = StartOfTime
  /\ env \in Envs
  /\ jar = << >>
  /\ auth = NoAuth
  /\ exhausted = FALSE
  /\ inv = Idle
  /\ first = NoAttempt
  /\ db = NoDb
  /\ page = LoadedPage

\* the invocation of a handler on req that has run up to step at time t, after
\* the provider has given these answers to its calls
Invocation(handler, req, answers, step, t) ==
  [handler |-> handler, pc |-> step.pc, req |-> req, calls |-> step.calls,
   answers |-> answers, tokenData |-> step.tokenData, resp |-> step.resp, at |-> t,
   logs |-> inv.logs \o step.logs]

\* what the handlers read of an answer of the provider
Answer(r, accessToken) ==
  [fail |-> r.fail, status |-> r.status, json |-> r.json, access_token |-> accessToken,
   data |-> r.data, text |-> r.text]

\* the browser takes the cookies of the answer of a request it made
Deliver(next) ==
  jar' = IF next.pc = "done" /\ next.req.viaBrowser
         THEN browserReceive(jar, next.resp, now) ELSE jar

\* a callback of the browser that has returned exhausts the attempt
Exhaust(next) ==
  exhausted' = (exhausted \/ (next.pc = "done" /\ next.req.viaBrowser))

\* time passes
Tick ==
  /\ now < StartOfTime + MaxTicks * TickMs
  /\ now' = now + TickMs
  /\ UNCHANGED << env, jar, auth, exhausted, inv >>
  /\ UNCHANGED elsewhere

\* GET /auth/start from the browser, which makes one request at a time:
\* xero-auth runs without awaiting anything
\* one GET of the start of the authorization by the browser
StartAttempt ==
  /\ inv.pc = "idle"
  /\ \E stateBytes \in RandomBytes(NStateBytes), verifierBytes \in RandomBytes(NVerifierBytes) :
    \E resp \in { xeroAuthHandler(env, now, stateBytes, verifierBytes) } :
    /\ auth' = IF resp.statusCode = 302
               THEN [resp |-> resp, state |-> toHex(stateBytes),
                     codeVerifier |-> toHex(verifierBytes), issuedAt |-> now,
                     logs |-> xeroAuthLogs(env, now, stateBytes, verifierBytes)]
               ELSE [resp |-> resp, state |-> << >>, codeVerifier |-> << >>,
                     issuedAt |-> now,
                     logs |-> xeroAuthLogs(env, now, stateBytes, verifierBytes)]
    /\ jar' = browserReceive(jar, resp, now)
    /\ exhausted' = (exhausted /\ resp.statusCode # 302)
    /\ UNCHANGED << now, env, inv >>

Start ==
  /\ StartAttempt
  /\ UNCHANGED elsewhere

\* a start while the redirect of an earlier start is still unanswered: the
\* earlier attempt is overtaken
StartAgain ==
  /\ auth.resp.statusCode = 302
  /\ StartAttempt
  /\ first' = [state |-> auth.state, codeVerifier |-> auth.codeVerifier]
  /\ UNCHANGED << db, page >>

CallbackRequest ==
  /\ inv.pc = "idle"
  /\ \E params \in CallbackParams, viaBrowser \in BOOLEAN, forged \in ForgedCookies :
       LET req == [params |-> params,
                   cookie |-> IF viaBrowser THEN browserCookieHeader(jar, now) ELSE forged,
                   viaBrowser |-> viaBrowser,
                   second |-> viaBrowser /\ exhausted]
       IN /\ viaBrowser => forged = Undefined
          /\ \E next \in { Invocation("callback", req, << >>, callbackBegin(req, env), now) } :
               /\ inv' = next
               /\ Deliver(next)
               /\ Exhaust(next)
  /\ UNCHANGED << now, env, auth >>
  /\ UNCHANGED elsewhere

\* the token endpoint answers the callback handler
CallbackTokenResponse ==
  /\ inv.handler = "callback" /\ inv.pc = "token"
  /\ \E r \in TokenResponses :
       \E next \in { Invocation("callback", inv.req, inv.answers \o << Answer(r, r.data.access_token) >>,
                                callbackOnToken(inv, r), now) } :
         /\ inv' = next
         /\ Deliver(next)
         /\ Exhaust(next)
  /\ UNCHANGED << now, env, auth >>
  /\ UNCHANGED elsewhere

\* the connections endpoint answers the callback handler
CallbackConnectionsResponse ==
  /\ inv.handler = "callback" /\ inv.pc = "connections"
  /\ \E r \in ConnectionsResponses :
       \E next \in { Invocation("callback", inv.req,
                                inv.answers \o << Answer(r, Undefined) >>,
                                callbackOnConnections(inv, r, now), now) } :
         /\ inv' = next
         /\ Deliver(next)
         /\ Exhaust(next)
  /\ UNCHANGED << now, env, auth >>
  /\ UNCHANGED elsewhere

\* a request to /auth/refresh made by the front end
RefreshRequest ==
  /\ inv.pc = "idle"
  /\ \E r \in RefreshRequests, runtime \in Runtimes :
       LET req == [httpMethod |-> r.httpMethod, body |-> r.body, viaBrowser |-> TRUE]
       IN \E next \in { Invocation("refresh", req, << >>,
                                   refreshBegin(req, env, runtime), now) } :
            /\ inv' = next
            /\ Deliver(next)
  /\ UNCHANGED << now, env, auth, exhausted >>
  /\ UNCHANGED elsewhere

\* the token endpoint answers the refresh handler
RefreshTokenResponse ==
  /\ inv.handler = "refresh" /\ inv.pc = "refresh"
  /\ \E r \in TokenResponses :
       \E next \in { Invocation("refresh", inv.req, inv.answers \o << Answer(r, r.data.access_token) >>,
                                refreshOnToken(inv, r, now), now) } :
         /\ inv' = next
         /\ Deliver(next)
  /\ UNCHANGED << now, env, auth, exhausted >>
  /\ UNCHANGED elsewhere

\* a request to /auth/connections: xero-connections runs without awaiting
\* anything
ConnectionsRequest ==
  /\ inv.pc = "idle"
  /\ \E r \in ConnectionsRequests :
       LET req == [httpMethod |-> r.httpMethod, cookie |-> r.cookie, viaBrowser |-> FALSE]
       IN \E next \in { Invocation("connections", req, << >>,
                                   Returned(<< >>, NoTokenData, xeroConnectionsHandler(req)),
                                   now) } :
            inv' = next
  /\ UNCHANGED << now, env, jar, auth, exhausted >>
  /\ UNCHANGED elsewhere

\* the answer has reached the client and the invocation is over
Return ==
  /\ inv.pc = "done"
  /\ inv' = Idle
  /\ UNCHANGED << now, env, jar, auth, exhausted >>
  /\ UNCHANGED elsewhere

Next ==
  \/ Tick
  \/ Start
  \/ CallbackRequest
  \/ CallbackTokenResponse
  \/ CallbackConnectionsResponse
  \/ RefreshRequest
  \/ RefreshTokenResponse
  \/ ConnectionsRequest
  \/ Return

Spec == Init /\ [][Next]_vars

\* the provider answers every call, or the call fails: the handlers then
\* take their next step
FairSpec ==
  /\ Spec
  /\ WF_vars(CallbackTokenResponse)
  /\ WF_vars(CallbackConnectionsResponse)
  /\ WF_vars(RefreshTokenResponse)

\* ------------------------------------------------------------------------
\* Reading the state: requests, calls and answers as the claims speak of them
\* ------------------------------------------------------------------------

IsCallback == inv.handler = "callback"

IsRefresh == inv.handler = "refresh"

Done == inv.pc = "done"

\* the calls of the invocation to the token endpoint, and to the connections endpoint
TokenPosts == { i \in 1..Len(inv.calls) :
                  inv.calls[i].method = "POST" /\ inv.calls[i].url = TokenUrl }

ConnectionsGets == { i \in 1..Len(inv.calls) :
                       inv.calls[i].method = "GET" /\ inv.calls[i].url = ConnectionsUrl }

\* the Location of the answer, its path and its query parameters as a browser
\* reads them
Locations == HeaderValues(inv.resp.headers, "Location")

UrlPath(loc) ==
  IF IndexOf(loc, "?") = 0 THEN loc ELSE SubSeq(loc, 1, IndexOf(loc, "?") - 1)

UrlParams(loc) ==
  IF IndexOf(loc, "?") = 0 THEN << >>
  ELSE qsPairs(Split(SubSeq(loc, IndexOf(loc, "?") + 1, Len(loc)), "&"))

ParamNames(loc) ==
  LET params == UrlParams(loc) IN [i \in 1..Len(params) |-> params[i].k]

\* the answer is a redirect to the application root
RedirectToRoot ==
  /\ inv.resp.statusCode = 302
  /\ Len(Locations) = 1
  /\ UrlPath(Locations[1]) = << "/" >>

\* the answer is the error redirect with this message and nothing else
ErrorRedirect(message) ==
  /\ RedirectToRoot
  /\ UrlParams(Locations[1]) = << [k |-> << "auth" >>, v |-> << "error" >>],
                                  [k |-> << "message" >>, v |-> message] >>

\* the answer is some error redirect
SomeErrorRedirect ==
  /\ RedirectToRoot
  /\ ParamNames(Locations[1]) = << << "auth" >>, << "message" >> >>
  /\ UrlParams(Locations[1])[1].v = << "error" >>

\* the answer is a success redirect
SuccessRedirect ==
  /\ RedirectToRoot
  /\ ParamNames(Locations[1]) = << << "auth" >>, << "tenantName" >>, << "tenantId" >>,
                                   << "multipleOrgs" >>, << "tenants" >>, << "tokens" >> >>
  /\ UrlParams(Locations[1])[1].v = << "success" >>

\* the messages of the error redirects
ProviderDeniedMessage(params) ==
  << "Authentication", " ", "error", ":", " " >>
  \o (IF Falsy(params.error_description) THEN params.error[1]
      ELSE params.error_description[1])

MissingCodeMessage ==
  << "No", " ", "authorization", " ", "code", " ", "received", " ", "from", " ", "Xero" >>

MissingStateMessage ==
  << "Invalid", " ", "authentication", " ", "request", " ", "(", "missing", " ", "state",
     ")" >>

SessionExpiredMessage ==
  << "Authentication", " ", "session", " ", "expired", " ", "or", " ", "invalid" >>

StateMismatchMessage ==
  << "Invalid", " ", "authentication", " ", "request", " ", "(", "state", " ", "mismatch",
     ")" >>

ConfigurationErrorMessage ==
  << "Server", " ", "configuration", " ", "error", " ", "(", "missing", " ", "Xero", " ",
     "credentials", ")" >>

TokenExchangeFailedMessage(status) ==
  << "Failed", " ", "to", " ", "exchange", " ", "code", " ", "for", " ", "tokens", " ", "(" >>
  \o NumberToString(status) \o << ")" >>

TenantFetchFailedMessage ==
  << "Connected", " ", "to", " ", "Xero", ",", " ", "but", " ", "failed", " ", "to", " ",
     "get", " ", "user", " ", "details" >>

\* the xero_auth cookie of a Cookie header: undefined when the header has none
CorrelationCookie(header) ==
  IF header = Undefined THEN Undefined
  ELSE CookieValue(cookie_parse(header[1]), << "xero_auth" >>)

\* the cookie can be parsed into its fields
Parsable(header) ==
  /\ ~Falsy(CorrelationCookie(header))
  /\ decodeURIComponent(CorrelationCookie(header)[1]).ok

\* the state stored in the correlation cookie: undefined when the cookie is
\* absent, cannot be decoded or has no state field, an array when it has several
StoredState(header) ==
  IF ~Parsable(header) THEN Undefined
  ELSE Field(querystring_parse(decodeURIComponent(CorrelationCookie(header)[1]).val),
             << "state" >>)

\* the cookie holds one state and it is not the state of the query
StateDiffers(req) ==
  /\ ~Falsy(req.params.state)
  /\ IsString(StoredState(req.cookie))
  /\ StoredState(req.cookie) # req.params.state

\* a field of a form-encoded body, as the provider reads it
FormField(body, name) == Field(qsPairs(Split(body, "&")), name)

\* ------------------------------------------------------------------------
\* Claims
\* ------------------------------------------------------------------------

\* C1, as stated: the token endpoint is called only if the query state is
\* present and equal to the state stored in the correlation cookie of the
\* same request; and a callback whose query state differs from the state of
\* its cookie always ends in the state-mismatch redirect, without any call.
C1_AsStated ==
  IsCallback =>
    /\ TokenPosts # {} =>
         /\ ~Falsy(inv.req.params.state)
         /\ StoredState(inv.req.cookie) = inv.req.params.state
    /\ (Done /\ StateDiffers(inv.req)) =>
         /\ ErrorRedirect(StateMismatchMessage)
         /\ inv.calls = << >>

\* C1, amended: the token endpoint is called only if the query state is
\* present and equal to the state stored in the correlation cookie of the
\* same request (for a request of the browser: the state the last start
\* issued); a callback whose query state differs from the state of its cookie
\* makes no call and ends in an error redirect, which is the state-mismatch
\* one whenever the query has no error parameter and has a code.
C1_StateBinding ==
  IsCallback =>
    /\ TokenPosts # {} =>
         /\ ~Falsy(inv.req.params.state)
         /\ StoredState(inv.req.cookie) = inv.req.params.state
         /\ inv.req.viaBrowser => inv.req.params.state = Str(auth.state)
    /\ StateDiffers(inv.req) =>
         /\ inv.calls = << >>
         /\ Done => SomeErrorRedirect
         /\ (Done /\ Falsy(inv.req.params.error) /\ ~Falsy(inv.req.params.code)) =>
              ErrorRedirect(StateMismatchMessage)

\* a callback with a code, no error and a state other than its cookie's has
\* been answered with the state-mismatch redirect
C1_Witness ==
  /\ IsCallback /\ Done
  /\ StateDiffers(inv.req)
  /\ Falsy(inv.req.params.error) /\ ~Falsy(inv.req.params.code)
  /\ ErrorRedirect(StateMismatchMessage)

\* the answer sets the xero_auth cookie with an expiry before time t
ClearsCorrelationCookie(resp, t) ==
  \E h \in { HeaderValues(resp.headers, "Set-Cookie")[i] :
               i \in 1..Len(HeaderValues(resp.headers, "Set-Cookie")) } :
    /\ parseSetCookie(h).name = << "xero_auth" >>
    /\ ~parseSetCookie(h).session
    /\ parseSetCookie(h).expires < t

\* C2: every answer of the callback handler, on the success path and on every
\* error path, carries a Set-Cookie header that sets the xero_auth cookie
\* with an expiry in the past.
C2_CookieClearedOnEveryExit ==
  (IsCallback /\ Done) => ClearsCorrelationCookie(inv.resp, now)

\* C3: once a callback of the browser has completed, a second callback of the
\* browser with no start in between finds no correlation cookie, makes no
\* call to the token endpoint and (when it carries a code and a state and no
\* error) ends in the session-expired redirect.
C3_CookieConsumedOnce ==
  (IsCallback /\ inv.req.second) =>
    /\ CorrelationCookie(inv.req.cookie) = Undefined
    /\ TokenPosts = {}
    /\ (/\ Done
        /\ Falsy(inv.req.params.error)
        /\ ~Falsy(inv.req.params.code)
        /\ ~Falsy(inv.req.params.state)) => ErrorRedirect(SessionExpiredMessage)

\* every answer of the callback handler is a 302 to the application root with
\* auth=success, or with auth=error and a message, and has no body
C4_Redirect ==
  (IsCallback /\ Done) =>
    /\ SuccessRedirect \/ SomeErrorRedirect
    /\ inv.resp.body = Undefined

\* C4: every callback invocation terminates, and its answer is always a 302
\* whose Location is the application root with either auth=success or
\* auth=error plus a message parameter, whatever the request, the answers of
\* the provider and the exceptions thrown; no answer has a JSON body.
C4_AlwaysRedirects ==
  /\ [] C4_Redirect
  /\ (IsCallback /\ ~Done) ~> (IsCallback /\ Done)

\* a callback has been answered from the catch block, after a call that failed
C4_Witness ==
  /\ IsCallback /\ Done
  /\ inv.answers # << >>
  /\ inv.answers[Len(inv.answers)].fail
  /\ SomeErrorRedirect

\* C5: the checks are made in the order error, code, state, cookie, state
\* mismatch, credentials; the first failing check decides the redirect, and
\* no call is made when one of them fails.
C5_FirstFailingCheckDecides ==
  (IsCallback /\ Done) =>
    LET p == inv.req.params
        decides(message) == ErrorRedirect(message) /\ inv.calls = << >>
    IN IF ~Falsy(p.error) THEN decides(ProviderDeniedMessage(p))
       ELSE IF Falsy(p.code) THEN decides(MissingCodeMessage)
       ELSE IF Falsy(p.state) THEN decides(MissingStateMessage)
       ELSE IF Falsy(CorrelationCookie(inv.req.cookie)) THEN decides(SessionExpiredMessage)
       ELSE IF StoredState(inv.req.cookie) # p.state THEN decides(StateMismatchMessage)
       ELSE IF Falsy(env.XERO_CLIENT_ID) \/ Falsy(env.XERO_CLIENT_SECRET)
         THEN decides(ConfigurationErrorMessage)
       ELSE TRUE

\* C6: a callback with a code and a state whose correlation cookie is absent,
\* cannot be decoded or has no state field ends in the session-expired
\* redirect.
C6_UnparsableCookieIsSessionExpired ==
  (/\ IsCallback /\ Done
   /\ Falsy(inv.req.params.error)
   /\ ~Falsy(inv.req.params.code)
   /\ ~Falsy(inv.req.params.state)
   /\ StoredState(inv.req.cookie) = Undefined) => ErrorRedirect(SessionExpiredMessage)

\* the answer of the provider was received and is not a 2xx
Not2xx(a) == ~a.fail /\ ~(a.status >= 200 /\ a.status <= 299)

Is2xx(a) == ~a.fail /\ a.status >= 200 /\ a.status <= 299

\* C7: the GET of the connections is made only after the POST to the token
\* endpoint was answered with a 2xx, and carries the access token of that
\* answer; a non-2xx answer of the token endpoint ends the callback in the
\* error redirect that carries its status, without a call to the connections
\* endpoint.
C7_ConnectionsAfterToken ==
  IsCallback =>
    /\ \A i \in ConnectionsGets :
         /\ i = 2 /\ TokenPosts = { 1 }
         /\ Len(inv.answers) >= 1 /\ Is2xx(inv.answers[1])
         /\ inv.calls[i].authorization
              = << "Bearer", " " >> \o TemplateString(inv.answers[1].access_token)
    /\ (inv.answers # << >> /\ Not2xx(inv.answers[1])) =>
         /\ Done
         /\ ErrorRedirect(TokenExchangeFailedMessage(inv.answers[1].status))
         /\ ConnectionsGets = {}

\* the connections have been asked for with a token that was obtained
C7_Witness ==
  /\ IsCallback
  /\ ConnectionsGets # {}
  /\ inv.answers[1].access_token # Undefined

\* C8: when the token exchange succeeded and the connections endpoint answers
\* with a non-2xx, the callback ends in the error redirect that carries only
\* its message: no tokens, tenantId, tenantName or tenants parameter.
C8_TenantFetchFailureHidesTokens ==
  (IsCallback /\ Done /\ Len(inv.answers) = 2 /\ Not2xx(inv.answers[2])) =>
    /\ ErrorRedirect(TenantFetchFailedMessage)
    /\ \A i \in 1..Len(ParamNames(Locations[1])) :
         ParamNames(Locations[1])[i] \notin
           { << "tokens" >>, << "tenantId" >>, << "tenantName" >>, << "tenants" >> }

\* tokens were obtained and the connections endpoint answered with a non-2xx
C8_Witness ==
  /\ IsCallback /\ Done /\ Len(inv.answers) = 2 /\ Not2xx(inv.answers[2])
  /\ inv.tokenData.access_token # Undefined

\* C9: no handler retries a call: a callback makes at most one POST to the
\* token endpoint and at most one GET to the connections endpoint, a refresh
\* at most one POST to the token endpoint, whatever the provider answers.
C9_NoRetry ==
  /\ IsCallback =>
       /\ Cardinality(TokenPosts) <= 1
       /\ Cardinality(ConnectionsGets) <= 1
       /\ Len(inv.calls) = Cardinality(TokenPosts) + Cardinality(ConnectionsGets)
  /\ IsRefresh =>
       /\ Cardinality(TokenPosts) <= 1
       /\ Len(inv.calls) = Cardinality(TokenPosts)

\* a call of a callback to the token endpoint has failed and the callback is over
C9_Witness ==
  /\ IsCallback /\ Done
  /\ Len(inv.answers) = 1 /\ inv.answers[1].fail
  /\ Cardinality(TokenPosts) = 1

Base64UrlAlphabet ==
  << "A", "B", "C", "D", "E", "F", "G", "H", "I", "J", "K", "L", "M", "N", "O", "P",
     "Q", "R", "S", "T", "U", "V", "W", "X", "Y", "Z", "a", "b", "c", "d", "e", "f",
     "g", "h", "i", "j", "k", "l", "m", "n", "o", "p", "q", "r", "s", "t", "u", "v",
     "w", "x", "y", "z", "0", "1", "2", "3", "4", "5", "6", "7", "8", "9", "-", "_" >>

\* the bits of a byte sequence, most significant first
RECURSIVE BitsOf(_)
BitsOf(bytes) ==
  IF bytes = << >> THEN << >>
  ELSE [i \in 1..8 |-> (Head(bytes) \div (2 ^ (8 - i))) % 2] \o BitsOf(Tail(bytes))

\* base64url without padding (RFC 4648, section 5): the bits in groups of six,
\* the last group filled with zeros
RECURSIVE Base64UrlOfBits(_)
Base64UrlOfBits(bits) ==
  IF bits = << >> THEN << >>
  ELSE LET g == [i \in 1..6 |-> IF i <= Len(bits) THEN bits[i] ELSE 0]
           v == 32 * g[1] + 16 * g[2] + 8 * g[3] + 4 * g[4] + 2 * g[5] + g[6]
       IN << Base64UrlAlphabet[v + 1] >>
          \o (IF Len(bits) <= 6 THEN << >> ELSE Base64UrlOfBits(SubSeq(bits, 7, Len(bits))))

Base64UrlNoPad(bytes) == Base64UrlOfBits(BitsOf(bytes))

\* C10: the code_challenge of the authorization URL of a start is
\* base64url-without-padding of SHA-256 of the verifier that start drew, and
\* a callback of the browser that reaches the token endpoint with the cookie
\* of that start sends exactly that verifier as code_verifier.
C10_PkceBinding ==
  /\ auth.resp.statusCode = 302 =>
       Field(UrlParams(HeaderValues(auth.resp.headers, "Location")[1]),
             << "code_challenge" >>)
         = Str(Base64UrlNoPad(sha256(auth.codeVerifier)))
  /\ (IsCallback /\ inv.req.viaBrowser /\ TokenPosts # {}) =>
       /\ inv.req.params.state = Str(auth.state)
       /\ FormField(inv.calls[1].body, << "code_verifier" >>) = Str(auth.codeVerifier)

\* a callback of the browser has sent the verifier of the last start
C10_Witness ==
  /\ IsCallback /\ inv.req.viaBrowser /\ TokenPosts # {}
  /\ auth.resp.statusCode = 302
  /\ FormField(inv.calls[1].body, << "code_verifier" >>) = Str(auth.codeVerifier)

\* the places of a JSON text where a member of this name begins; a quote
\* inside a string is escaped, so none of them lies inside a string
MemberPlaces(text, name) ==
  { i \in 1..Len(text) : /\ i + 3 <= Len(text)
                         /\ SubSeq(text, i, i + 3) = << "\"", name, "\"", ":" >> }

\* the values of the string members of this name in a JSON text, in the order
\* of the text
StringMembersIn(text, name) ==
  LET places == MemberPlaces(text, name)
      place(k) == CHOOSE i \in places : Cardinality({ j \in places : j < i }) = k - 1
  IN [k \in 1..Cardinality(places) |->
        jsonReadString(SubSeq(text, place(k) + 4, Len(text))).val]

\* the callback has returned after the connections endpoint gave a list
ConnectionsListed ==
  /\ IsCallback /\ Done
  /\ Len(inv.answers) = 2 /\ Is2xx(inv.answers[2]) /\ inv.answers[2].json

\* C11: on the success path, for every list of connections of the provider,
\* the tenantId of the success redirect is that of the first connection in
\* the order of the provider and is empty for the empty list, for which the
\* redirect still says auth=success; multipleOrgs is true exactly when the
\* list has more than one element; and tenants lists every connection once,
\* in the order of the provider.
C11_TenantResolution ==
  ConnectionsListed =>
    \E connections \in { inv.answers[2].data }, params \in { UrlParams(Locations[1]) } :
      /\ SuccessRedirect
      /\ Field(params, << "tenantId" >>)
           = Str(IF connections = << >> THEN << >> ELSE connections[1].tenantId[1])
      /\ Field(params, << "multipleOrgs" >>)
           = Str(IF Len(connections) > 1 THEN << "true" >> ELSE << "false" >>)
      /\ \E tenants \in { Field(params, << "tenants" >>)[1] } :
           StringMembersIn(tenants, "tenantId")
             = [i \in 1..Len(connections) |-> connections[i].tenantId[1]]

\* the provider listed two connections, the second of the two tenants first
C11_Witness ==
  /\ ConnectionsListed
  /\ inv.answers[2].data = << Tenants[2], Tenants[1] >>
  /\ Field(UrlParams(Locations[1]), << "tenantId" >>) = Tenants[2].tenantId

\* the provider listed no connection and the redirect says auth=success
C11_WitnessEmpty ==
  /\ ConnectionsListed
  /\ inv.answers[2].data = << >>
  /\ SuccessRedirect

\* the last start was answered with the redirect to the provider
StartIssued == auth.resp.statusCode = 302

StartLocation == HeaderValues(auth.resp.headers, "Location")[1]

StartSetCookies == HeaderValues(auth.resp.headers, "Set-Cookie")

\* the attributes of a Set-Cookie header, after its name=value
CookieAttributes(h) == { Trim(Split(h, ";")[i]) : i \in 2..Len(Split(h, ";")) }

\* the Location and the cookie of a start, the expiry of the cookie apart
StartWellFormed ==
  \E params \in { UrlParams(StartLocation) } :
    /\ [i \in 1..Len(params) |-> params[i].k]
         = << << "client_id" >>, << "response_type" >>, << "redirect_uri" >>, << "scope" >>,
              << "state" >>, << "code_challenge" >>, << "code_challenge_method" >> >>
    /\ Field(params, << "response_type" >>) = Str(<< "code" >>)
    /\ Field(params, << "code_challenge_method" >>) = Str(<< "S256" >>)
    /\ Len(StartSetCookies) = 1
    /\ parseSetCookie(StartSetCookies[1]).name = << "xero_auth" >>
    /\ { << "HttpOnly" >>, << "Secure" >>, << "SameSite", "=", "Lax" >>, << "Path", "=", "/" >> }
         \subseteq CookieAttributes(StartSetCookies[1])
    /\ ~parseSetCookie(StartSetCookies[1]).session
    /\ IsString(Field(params, << "state" >>))
    /\ StoredState(Str(<< "xero_auth", "=" >> \o parseSetCookie(StartSetCookies[1]).value))
         = Field(params, << "state" >>)
    /\ Field(params, << "state" >>) = Str(auth.state)

\* C12, as stated: every successful start is a 302 whose Location has the
\* parameters client_id, response_type=code, redirect_uri, scope, state,
\* code_challenge and code_challenge_method=S256 and whose Set-Cookie sets
\* xero_auth with HttpOnly, Secure, SameSite=Lax, path / and an expiry exactly
\* 15 minutes after the issuance; the state of the cookie is the state of
\* the Location.
C12_AsStated ==
  StartIssued =>
    /\ StartWellFormed
    /\ parseSetCookie(StartSetCookies[1]).expires = auth.issuedAt + 15 * 60 * 1000

\* C12, amended: as above, with the expiry of the cookie being the time 15
\* minutes after the issuance cut down to a whole second, the precision of the
\* Expires attribute (so less than a second before the 15 minutes are over).
C12_StartResponse ==
  StartIssued =>
    /\ StartWellFormed
    /\ parseSetCookie(StartSetCookies[1]).expires
         = ((auth.issuedAt + 15 * 60 * 1000) \div 1000) * 1000

\* a start was made at a time that is not a whole second
C12_Witness ==
  /\ StartIssued
  /\ auth.issuedAt % 1000 # 0
  /\ StartWellFormed

\* C13: for one deployment base URL (the URL of the environment, or the
\* localhost default), the redirect_uri of the authorization URL of a start
\* and the redirect_uri of the token POST of a callback are the same string:
\* the base URL followed by the path of the callback function.
C13_RedirectUriConsistent ==
  (StartIssued /\ IsCallback /\ TokenPosts # {}) =>
    /\ FormField(inv.calls[1].body, << "redirect_uri" >>)
         = Field(UrlParams(StartLocation), << "redirect_uri" >>)
    /\ FormField(inv.calls[1].body, << "redirect_uri" >>)
         = Str((IF env.URL = Undefined
                THEN << "http", ":", "/", "/", "localhost", ":", "8888" >>
                ELSE env.URL[1])
               \o << "/", ".netlify", "/", "functions", "/", "xero-callback" >>)

\* a start and a token POST were made where the URL of the environment is unset
C13_Witness ==
  /\ StartIssued /\ IsCallback /\ TokenPosts # {}
  /\ env.URL = Undefined
  /\ IsString(FormField(inv.calls[1].body, << "redirect_uri" >>))

\* pattern occurs in text
Contains(text, pattern) ==
  \E i \in 1..(Len(text) - Len(pattern) + 1) :
    SubSeq(text, i, i + Len(pattern) - 1) = pattern

\* C14: when the client identifier is not configured, a start is answered
\* with a 500 whose body is a generic message that holds no secret of the
\* configuration; it sets no cookie and has no redirect to the provider.
C14_StartWithoutClientId ==
  (Falsy(env.XERO_CLIENT_ID) /\ auth.resp # NoResponse) =>
    /\ auth.resp.statusCode = 500
    /\ HeaderValues(auth.resp.headers, "Set-Cookie") = << >>
    /\ HeaderValues(auth.resp.headers, "Location") = << >>
    /\ jar = << >>
    /\ JSON_parse(auth.resp.body[1]).ok
    /\ Member(JSON_parse(auth.resp.body[1]), << "error" >>) = Str(<< "Server", " ", "error" >>)
    /\ ~Falsy(env.XERO_CLIENT_SECRET) =>
         ~Contains(auth.resp.body[1], env.XERO_CLIENT_SECRET[1])

\* a start was made without a client identifier but with a client secret
C14_Witness ==
  /\ Falsy(env.XERO_CLIENT_ID) /\ ~Falsy(env.XERO_CLIENT_SECRET)
  /\ auth.resp.statusCode = 500

\* C15, as stated: the refresh handler answers 405 to every request whose
\* method is not POST, and makes no call to the provider for it.
C15_AsStated ==
  (IsRefresh /\ inv.req.httpMethod # "POST") =>
    /\ Done
    /\ inv.resp.statusCode = 405
    /\ inv.calls = << >>

\* C15, amended: the refresh handler makes no call to the provider for a
\* request whose method is not POST; it answers 204 to OPTIONS (the CORS
\* preflight) and 405 to every other method.
C15_MethodCheck ==
  (IsRefresh /\ inv.req.httpMethod # "POST") =>
    /\ Done
    /\ inv.resp.statusCode = (IF inv.req.httpMethod = "OPTIONS" THEN 204 ELSE 405)
    /\ inv.calls = << >>

\* a GET that carries a refresh token has been answered with 405
C15_Witness ==
  /\ IsRefresh /\ Done
  /\ inv.req.httpMethod = "GET"
  /\ inv.req.body # Undefined /\ JSON_parse(inv.req.body[1]).ok
  /\ inv.resp.statusCode = 405

\* the body of a request is JSON with a refresh_token that is not empty
HasRefreshToken(body) ==
  /\ body # Undefined
  /\ JSON_parse(body[1]).ok
  /\ JSON_parse(body[1]).kind = "object"
  /\ ~Falsy(Member(JSON_parse(body[1]), << "refresh_token" >>))
  /\ Member(JSON_parse(body[1]), << "refresh_token" >>) # Str(<< >>)

\* C16: a POST to the refresh handler whose body is not JSON, or is JSON
\* without a refresh_token that is not empty, is answered with 400 and makes
\* no call; a POST with such a token where the client credentials are missing
\* is answered with 500 and makes no call either (the order of the checks
\* being method, body, credentials).
C16_BodyAndCredentialChecks ==
  (IsRefresh /\ inv.req.httpMethod = "POST") =>
    IF ~HasRefreshToken(inv.req.body)
    THEN Done /\ inv.resp.statusCode = 400 /\ inv.calls = << >>
    ELSE (Falsy(env.XERO_CLIENT_ID) \/ Falsy(env.XERO_CLIENT_SECRET)) =>
           (Done /\ inv.resp.statusCode = 500 /\ inv.calls = << >>)

\* C17: when the provider answers a refresh with a status S that is not 2xx,
\* the handler answers with status S and a body that holds the text of the
\* provider's answer; a 4xx of the provider is never turned into a 500.
C17_RefreshPassthrough ==
  (IsRefresh /\ Len(inv.answers) = 1 /\ Not2xx(inv.answers[1])) =>
    /\ Done
    /\ inv.resp.statusCode = inv.answers[1].status
    /\ JSON_parse(inv.resp.body[1]).ok
    /\ Member(JSON_parse(inv.resp.body[1]), << "details" >>) = Str(inv.answers[1].text)

\* the provider answered a refresh with 400 and a text
C17_Witness ==
  /\ IsRefresh /\ Done
  /\ Len(inv.answers) = 1 /\ inv.answers[1].status = 400
  /\ inv.answers[1].text # << >>
  /\ inv.resp.statusCode = 400

\* the place of a token bundle where its last member, expires_at, begins
ExpiresAtPlace(text) ==
  CHOOSE i \in 1..Len(text) :
    /\ i + 4 <= Len(text)
    /\ SubSeq(text, i, i + 4) = << ",", "\"", "expires_at", "\"", ":" >>
    /\ \A j \in (i + 5)..(Len(text) - 1) : text[j] \in Digits

\* a token bundle as its reader takes it from the JSON text: the two tokens
\* and the number expires_at
ReadBundle(text) ==
  [access_token |->
     Member(JSON_parse(SubSeq(text, 1, ExpiresAtPlace(text) - 1) \o << "}" >>),
            << "access_token" >>),
   refresh_token |->
     Member(JSON_parse(SubSeq(text, 1, ExpiresAtPlace(text) - 1) \o << "}" >>),
            << "refresh_token" >>),
   expires_at |-> StringToNumber(SubSeq(text, ExpiresAtPlace(text) + 5, Len(text) - 1))]

\* the bundle that is due for the tokens of the provider at time t
DueBundle(tokenData, t) ==
  [access_token |-> tokenData.access_token,
   refresh_token |-> tokenData.refresh_token,
   expires_at |-> t + tokenData.expires_in[1] * 1000]

\* the refresh handler has returned after a 2xx answer with JSON of the provider
Refreshed ==
  /\ IsRefresh /\ Done
  /\ Len(inv.answers) = 1 /\ Is2xx(inv.answers[1]) /\ inv.answers[1].json

\* C18: after a 2xx answer of the provider that holds the tokens and their
\* lifetime, the success redirect of the callback and the 200 body of the
\* refresh handler hold a bundle with the access_token and refresh_token of
\* the provider, unchanged, and expires_at = the time of the answer in epoch
\* milliseconds + expires_in * 1000.
C18_TokenBundle ==
  /\ (ConnectionsListed /\ inv.answers[1].data.expires_in # << >>) =>
       \E text \in { Field(UrlParams(Locations[1]), << "tokens" >>)[1] } :
         ReadBundle(text) = DueBundle(inv.answers[1].data, inv.at)
  /\ (Refreshed /\ inv.answers[1].data.expires_in # << >>) =>
       /\ inv.resp.statusCode = 200
       /\ \E text \in { inv.resp.body[1] } :
            ReadBundle(text) = DueBundle(inv.answers[1].data, inv.at)

\* a callback has handed over its bundle some time after the first request
C18_Witness ==
  /\ ConnectionsListed
  /\ inv.answers[1].data.expires_in # << >>
  /\ inv.at > StartOfTime

\* a refresh has handed over its bundle
C18_WitnessRefresh ==
  /\ Refreshed
  /\ inv.answers[1].data.expires_in # << >>
  /\ inv.resp.statusCode = 200

IsConnections == inv.handler = "connections"

\* a cookie of the request to the connections handler, as the cookie parser
\* reads it
SessionCookie(name) == CookieValue(cookie_parse(OrElse(inv.req.cookie, Str(<< >>))[1]), name)

\* C19: to every request that is not an OPTIONS, the connections handler
\* answers 401 when the xero_authenticated cookie is not exactly 'true'
\* (whatever the other cookies); otherwise 404 when the xero_tenant_id cookie
\* is absent or empty; otherwise 200 with a list of one element that holds
\* that tenantId and the tenant name of the cookie.
C19_ConnectionsHandler ==
  (IsConnections /\ inv.req.httpMethod # "OPTIONS") =>
    /\ Done /\ inv.calls = << >>
    /\ IF SessionCookie(<< "xero_authenticated" >>) # Str(<< "true" >>)
       THEN inv.resp.statusCode = 401
       ELSE IF SessionCookie(<< "xero_tenant_id" >>) \in { Undefined, Str(<< >>) }
       THEN inv.resp.statusCode = 404
       ELSE /\ inv.resp.statusCode = 200
            /\ Head(inv.resp.body[1]) = "[" /\ inv.resp.body[1][Len(inv.resp.body[1])] = "]"
            /\ StringMembersIn(inv.resp.body[1], "tenantId")
                 = SessionCookie(<< "xero_tenant_id" >>)
            /\ Len(StringMembersIn(inv.resp.body[1], "tenantName")) = 1
            /\ ~Falsy(SessionCookie(<< "xero_tenant_name" >>)) =>
                 StringMembersIn(inv.resp.body[1], "tenantName")
                   = SessionCookie(<< "xero_tenant_name" >>)

\* the tenant of the cookies has been handed over, with its name
C19_Witness ==
  /\ IsConnections /\ Done
  /\ inv.resp.statusCode = 200
  /\ SessionCookie(<< "xero_tenant_name" >>) = Str(<< "Acme", " ", "Ltd" >>)

\* a request with a tenant but without the flag has been answered with 401
C19_WitnessPrecedence ==
  /\ IsConnections /\ Done
  /\ inv.resp.statusCode = 401
  /\ ~Falsy(SessionCookie(<< "xero_tenant_id" >>))

\* the values that are to stay secret: the client secret of the configuration,
\* and the access and refresh tokens the provider issues and the callers hold
Secrets ==
  { env.XERO_CLIENT_SECRET[i] : i \in 1..Len(env.XERO_CLIENT_SECRET) }
  \cup UNION { { d.access_token[i] : i \in 1..Len(d.access_token) }
               \cup { d.refresh_token[i] : i \in 1..Len(d.refresh_token) } :
               d \in TokenDatas }

Leaks(text) == \E secret \in Secrets : Contains(text, secret)

\* what the client reads of an answer: its body, its Location, and the values
\* of the parameters of its Location once decoded
UserFacingTexts(resp) ==
  LET locs == HeaderValues(resp.headers, "Location")
      params == IF locs = << >> THEN << >> ELSE UrlParams(locs[1])
  IN { resp.body[i] : i \in 1..Len(resp.body) }
     \cup { locs[i] : i \in 1..Len(locs) }
     \cup { params[i].v : i \in 1..Len(params) }

\* neither the answer nor a line of the console holds a secret
KeepsSecrets(resp, logs) ==
  /\ \A text \in UserFacingTexts(resp) : ~Leaks(text)
  /\ \A i \in 1..Len(logs) : ~Leaks(logs[i])

C20_OtherErrorPaths ==
  /\ auth.resp.statusCode >= 400 => KeepsSecrets(auth.resp, auth.logs)
  /\ (IsCallback /\ Done /\ ~SuccessRedirect) => KeepsSecrets(inv.resp, inv.logs)
  /\ (IsRefresh /\ Done /\ inv.resp.statusCode >= 400
      /\ JSON_parse(OrElse(inv.req.body, Str(<< "{", "}" >>))[1]).ok) =>
       KeepsSecrets(inv.resp, inv.logs)

\* ------------------------------------------------------------------------
\* xero-api: the reverse proxy of the accounting API
\* ------------------------------------------------------------------------

apiCorsHeaders ==
  << Header("Access-Control-Allow-Origin", << "*" >>),
     Header("Access-Control-Allow-Headers",
            << "Content-Type", ",", " ", "Authorization", ",", " ", "Xero-Tenant-Id" >>),
     Header("Access-Control-Allow-Methods",
            << "GET", ",", " ", "POST", ",", " ", "OPTIONS" >>) >>

\* String.prototype.split on a separator of several characters
RECURSIVE SplitOn(_, _)
SplitOn(s, sep) ==
  LET found == { i \in 1..(Len(s) - Len(sep) + 1) : SubSeq(s, i, i + Len(sep) - 1) = sep }
      i == CHOOSE j \in found : \A k \in found : j <= k
  IN IF found = {} THEN << s >>
     ELSE << SubSeq(s, 1, i - 1) >> \o SplitOn(SubSeq(s, i + Len(sep), Len(s)), sep)

\* event.path.split('/api/xero-api/')[1], a string or undefined
apiPath(eventPath) ==
  LET pieces == SplitOn(eventPath, << "/", "api", "/", "xero-api", "/" >>)
  IN IF Len(pieces) >= 2 THEN Str(pieces[2]) ELSE Undefined

\* queryParams.where
whereParam(queryParams) == CookieValue(queryParams, << "where" >>)

\* the value appended for where: decoded, or as it came when decoding throws
whereValue(where) ==
  LET decoded == decodeURIComponent(where) IN IF decoded.ok THEN decoded.val ELSE where

\* variant: the where parameter is not deleted from queryParams
otherParamsKept(queryParams) == queryParams

\* Object.entries(queryParams) after the delete of a truthy where
otherParams(queryParams) ==
  IF Falsy(whereParam(queryParams)) THEN queryParams
  ELSE SelectSeq(queryParams, LAMBDA pair : pair.k # << "where" >>)

\* the pairs appended to url.searchParams, in order
apiSearchParams(queryParams) ==
  (IF Falsy(whereParam(queryParams)) THEN << >>
   ELSE << [k |-> << "where" >>, v |-> whereValue(whereParam(queryParams)[1])] >>)
  \o otherParams(queryParams)

\* url.toString(): the endpoint, and the search parameters when there are any
xeroApiUrl(path, queryParams) ==
  << "https", ":", "/", "/", "api.xero.com", "/", "api.xro", "/", "2.0", "/" >> \o path
  \o (IF apiSearchParams(queryParams) = << >> THEN << >>
      ELSE << "?" >> \o searchParamsToString(apiSearchParams(queryParams)))

\* a call of the proxy made with node-fetch
ApiCall(method, url, authorization, tenantId, body) ==
  [method |-> method, url |-> url, authorization |-> authorization, tenantId |-> tenantId,
   body |-> body]

\* the answers of the proxy that are a JSON object with an error
apiError(statusCode, error) ==
  [statusCode |-> statusCode, headers |-> apiCorsHeaders,
   body |-> Str(jsonObject(<< [k |-> << "error" >>, v |-> jsonString(error)] >>))]

\* the catch block of the proxy
apiCatch(message) ==
  [statusCode |-> 500, headers |-> apiCorsHeaders, body |-> serverErrorBody(message)]

\* the lines the proxy writes about the where parameter and the request it makes
apiLogs(path, queryParams) ==
  LET where == whereParam(queryParams)
      decoded == decodeURIComponent(where[1])
      whereOnly == << [k |-> << "where" >>, v |-> decoded.val] >>
  IN (IF Falsy(where) THEN << >>
      ELSE IF decoded.ok
      THEN << ConsoleLine(<< << "Decoded", " ", "where", ":" >>, decoded.val >>),
              ConsoleLine(<< << "Final", " ", "URL", " ", "with", " ", "where", ":" >>,
                             xeroApiUrl(path, whereOnly) >>) >>
      ELSE << ConsoleLine(<< << "Error", " ", "processing", " ", "where", " ",
                                "parameter", ":" >>,
                             << "URI", " ", "malformed" >> >>) >>)
     \o << << "Making", " ", "request", " ", "to", " ", "Xero", " ", "API", ":", " " >>
           \o xeroApiUrl(path, queryParams) >>

\* the line the catch block of the proxy writes
apiCatchLine(message) ==
  ConsoleLine(<< << "Error", " ", "in", " ", "xero-api", " ", "function", ":" >>, message >>)

\* error.message of the TypeError node-fetch throws for a GET or HEAD with a body
bodyNotAllowedMessage ==
  << "Request", " ", "with", " ", "GET", "/", "HEAD", " ", "method", " ", "cannot", " ",
     "have", " ", "body" >>

\* the handler from its entry to its await
xeroApiBegin(req) ==
  LET path == apiPath(req.path)
      authHeader == req.authorization
      tenantId == req.tenantId
      queryParams == IF req.query = Undefined THEN << >> ELSE req.query[1]
      body == IF ~Falsy(req.body) /\ req.httpMethod # "GET" THEN req.body ELSE Undefined
      return(resp) == Returned(<< >>, NoTokenData, resp)
  IN IF req.httpMethod = "OPTIONS" THEN
       return([statusCode |-> 204, headers |-> apiCorsHeaders, body |-> Undefined])
     ELSE IF Falsy(path) THEN
       return(apiError(400, << "Missing", " ", "API", " ", "endpoint" >>))
     ELSE IF Falsy(authHeader) \/ Falsy(tenantId) THEN
       return(apiError(401, << "Missing", " ", "authentication", " ", "details" >>))
     ELSE IF req.httpMethod = "HEAD" /\ body # Undefined THEN
       Logged(apiLogs(path[1], queryParams) \o << apiCatchLine(bodyNotAllowedMessage) >>,
              return(apiCatch(bodyNotAllowedMessage)))
     ELSE
       Logged(apiLogs(path[1], queryParams),
              Awaiting("api",
                       << ApiCall(req.httpMethod, xeroApiUrl(path[1], queryParams),
                                  authHeader[1], tenantId[1], body) >>,
                       NoTokenData))

\* the body returned for the text of the provider: a JSON string is unwrapped,
\* any other JSON value is written again, a text that is not JSON is kept
apiResponseBody(responseText) ==
  LET responseBody == JSON_parse(responseText)
  IN IF ~responseBody.ok THEN responseText
     ELSE IF responseBody.kind = "string" THEN jsonReadString(responseText).val
     ELSE IF responseBody.kind = "null" THEN << "null" >>
     ELSE jsonObject([i \in 1..Len(responseBody.members) |->
                        [k |-> responseBody.members[i].k,
                         v |-> jsonString(responseBody.members[i].v)]])

\* variant: every answer of the provider is returned as a success
apiStatusOk(r) == 200

\* xeroResponse.status
apiStatus(r) == r.status

\* the handler from the answer of the provider to its return
xeroApiOnResponse(inv0, r) ==
  IF r.fail THEN
    Logged(<< apiCatchLine(fetchErrorMessage(inv0.calls[1].url)) >>,
           Returned(inv0.calls, NoTokenData,
                    apiCatch(fetchErrorMessage(inv0.calls[1].url))))
  ELSE
    Returned(inv0.calls, NoTokenData,
             [statusCode |-> apiStatus(r),
              headers |-> apiCorsHeaders
                          \o << Header("Content-Type", << "application", "/", "json" >>) >>,
              body |-> Str(apiResponseBody(r.text))])

\* event.path of the requests to the proxy
ApiPaths ==
  { << "/", "api", "/", "xero-api", "/", "Invoices" >>,
    << "/", "api", "/", "xero-api", "/", "Contacts", "/", "7" >>,
    << "/", "api", "/", "xero-api", "/" >>,
    << "/", "api", "/", "xero-api" >> }

\* event.queryStringParameters: null, or the parameters in the order of the
\* object, as the platform hands them over
ApiQueries ==
  LET where(v) == [k |-> << "where" >>, v |-> v]
      paging == [k |-> << "page" >>, v |-> << "1" >>]
      order == [k |-> << "order" >>,
                v |-> << "Date", " ", "DESC", "&", "x", "=", "1", "+", "1" >>]
  IN { Undefined,
       Str(<< >>),
       Str(<< paging >>),
       Str(<< where(<< >>) >>),
       Str(<< where(<< "Status", "=", "=", "\"", "PAID", "\"" >>) >>),
       Str(<< where(<< "Status", "%", "3", "D", "%", "3", "D", "%", "2", "2", "PAID",
                       "%", "2", "2" >>), order >>),
       Str(<< paging, where(<< "Name", "%", "2", "5", "2", "0", "A" >>), order >>),
       Str(<< where(<< "Total", ">", "1", "0", "0", "%" >>), paging >>) }

\* the requests to the proxy
ApiRequests ==
  [path : ApiPaths,
   httpMethod : { "GET", "POST", "HEAD", "OPTIONS" },
   authorization : { Undefined, Str(<< "Bearer", " ", "eyJ", ".", "a", "+", "1" >>) },
   tenantId : { Undefined, Str(<< "T", "-", "1" >>) },
   query : ApiQueries,
   body : { Undefined, Str(<< "{", "\"", "Type", "\"", ":", "\"", "ACCREC", "\"", "}" >>) }]

\* the answers of the accounting API: a failed request, or a status and a text
ApiResponses ==
  { [fail |-> TRUE, status |-> 0, text |-> << >>] }
  \cup [fail : { FALSE }, status : { 200, 404, 503 },
        text : { << "{", "\"", "Status", "\"", ":", "\"", "OK", "\"", "}" >>,
                 << "\"", "gone", "\"" >>,
                 << "<", "html", ">" >> }]

\* a request to /api/xero-api/...
ApiRequest ==
  /\ inv.pc = "idle"
  /\ \E r \in ApiRequests :
       LET req == [path |-> r.path, httpMethod |-> r.httpMethod,
                   authorization |-> r.authorization, tenantId |-> r.tenantId,
                   query |-> r.query, body |-> r.body, viaBrowser |-> FALSE]
       IN \E next \in { Invocation("api", req, << >>, xeroApiBegin(req), now) } :
            inv' = next
  /\ UNCHANGED << now, env, jar, auth, exhausted >>
  /\ UNCHANGED elsewhere

\* the accounting API answers the proxy
ApiResponse ==
  /\ inv.handler = "api" /\ inv.pc = "api"
  /\ \E r \in ApiResponses :
       \E next \in { Invocation("api", inv.req, inv.answers \o << r >>,
                                xeroApiOnResponse(inv, r), now) } :
         inv' = next
  /\ UNCHANGED << now, env, jar, auth, exhausted >>
  /\ UNCHANGED elsewhere

ApiNext ==
  \/ ApiRequest
  \/ ApiResponse
  \/ Return

\* the proxy alone, one request at a time
ApiSpec == Init /\ [][ApiNext]_vars

\* ------------------------------------------------------------------------
\* The proxy as the claims speak of it
\* ------------------------------------------------------------------------

IsApi == inv.handler = "api"

\* the query parameters of the request, in order
Incoming == IF inv.req.query = Undefined THEN << >> ELSE inv.req.query[1]

\* the query parameters of the URL the proxy called, as the provider reads them
Forwarded == UrlParams(inv.calls[1].url)

Occurrences(pairs, key) == { i \in 1..Len(pairs) : pairs[i].k = key }

\* C21: when the proxy calls the provider, the URL it calls holds each
\* parameter of the request exactly once and no other; the value of where is
\* the incoming value decoded once, or the incoming value itself when it cannot
\* be decoded, and the value of every other parameter is the incoming value.
C21_WhereDecodedOnce ==
  (IsApi /\ inv.calls # << >>) =>
    \E incoming \in { Incoming }, forwarded \in { Forwarded } :
      /\ Len(forwarded) = Len(incoming)
      /\ \A i \in 1..Len(incoming) :
           /\ Cardinality(Occurrences(forwarded, incoming[i].k)) = 1
           /\ \A j \in Occurrences(forwarded, incoming[i].k) :
                forwarded[j].v =
                  IF incoming[i].k # << "where" >> THEN incoming[i].v
                  ELSE IF decodeURIComponent(incoming[i].v).ok
                  THEN decodeURIComponent(incoming[i].v).val
                  ELSE incoming[i].v

\* the proxy called the provider for a request whose where holds an escaped
\* percent sign and that has other parameters
C21_Witness ==
  /\ IsApi /\ inv.calls # << >>
  /\ Len(Incoming) = 3
  /\ \E i \in Occurrences(Incoming, << "where" >>) :
       /\ decodeURIComponent(Incoming[i].v).ok
       /\ decodeURIComponent(Incoming[i].v).val = << "Name", "%", "2", "0", "A" >>

\* the proxy called the provider for a request whose where cannot be decoded
C21_WitnessRaw ==
  /\ IsApi /\ inv.calls # << >>
  /\ \E i \in Occurrences(Incoming, << "where" >>) : ~decodeURIComponent(Incoming[i].v).ok


\* ------------------------------------------------------------------------
\* The session of the browser after a completed authorization
\* ------------------------------------------------------------------------

\* the callback of the browser has returned the success redirect and the
\* provider listed at least one connection, the first with a tenant id
SignedIn ==
  /\ ConnectionsListed /\ inv.req.viaBrowser
  /\ SuccessRedirect
  /\ inv.answers[2].data # << >>
  /\ ~Falsy(inv.answers[2].data[1].tenantId)

\* the cookies the browser sends to the functions of the site
BrowserCookies == cookie_parse(OrElse(browserCookieHeader(jar, now), Str(<< >>))[1])

\* C22: once the callback of the browser has completed with success and a
\* non-empty first tenant, the cookie jar of the browser holds
\* xero_authenticated=true, xero_tenant_id and xero_tenant_name of that
\* tenant, so that a request of the browser to the connections handler is
\* answered with 200 and the flag check of the relay passes.
C22_SessionAfterCallback ==
  SignedIn =>
    /\ isAuthenticated(BrowserCookies)
    /\ CookieValue(BrowserCookies, << "xero_tenant_id" >>) = inv.answers[2].data[1].tenantId
    /\ ~Falsy(CookieValue(BrowserCookies, << "xero_tenant_name" >>))
    /\ xeroConnectionsHandler([httpMethod |-> "GET",
                               cookie |-> browserCookieHeader(jar, now),
                               viaBrowser |-> TRUE]).statusCode = 200


\* ------------------------------------------------------------------------
\* Two overlapping authorizations of one browser
\* ------------------------------------------------------------------------

\* the site is configured, so that every start is answered with the redirect
OverlapInit ==
  /\ Init
  /\ ~Falsy(env.XERO_CLIENT_ID) /\ ~Falsy(env.XERO_CLIENT_SECRET) /\ ~Falsy(env.URL)

\* the first start of the browser
FirstStart ==
  /\ auth.resp.statusCode # 302
  /\ Start

OverlapNext ==
  \/ Tick
  \/ FirstStart
  \/ StartAgain
  \/ CallbackRequest
  \/ CallbackTokenResponse
  \/ CallbackConnectionsResponse
  \/ Return

OverlapSpec == OverlapInit /\ [][OverlapNext]_vars


\* an earlier start of the browser has been overtaken by the last one
Overtaken == first # NoAttempt

\* the xero_auth cookies the browser holds
CorrelationCookies == { i \in 1..Len(jar) : jar[i].name = << "xero_auth" >> }

\* the callback of the overtaken attempt as the provider sends the browser
\* back: with a code, without error, with the state of the overtaken start,
\* which is not the state of the last start, while the browser still sends
\* its xero_auth cookie
CarriesFirstState ==
  /\ IsCallback /\ inv.req.viaBrowser
  /\ Overtaken /\ first.state # auth.state
  /\ inv.req.params.state = Str(first.state)
  /\ Falsy(inv.req.params.error) /\ ~Falsy(inv.req.params.code)
  /\ ~Falsy(inv.req.cookie)

C23_WitnessLater ==
  /\ IsCallback /\ inv.req.viaBrowser
  /\ Overtaken /\ first.state # auth.state /\ first.codeVerifier # auth.codeVerifier
  /\ \E i \in TokenPosts :
       FormField(inv.calls[i].body, << "code_verifier" >>) = Str(auth.codeVerifier)


\* the path of the request names an endpoint after /api/xero-api/
EndpointNamed ==
  \E i \in 1..(Len(inv.req.path) - 1) :
    SubSeq(inv.req.path, 1, i) = << "/", "api", "/", "xero-api", "/" >>

\* both headers of the authentication are present
Authenticated == ~Falsy(inv.req.authorization) /\ ~Falsy(inv.req.tenantId)

\* the proxy has answered with this status without calling the provider
Refused(status) == Done /\ inv.calls = << >> /\ inv.resp.statusCode = status

\* C24 as stated: the proxy calls the provider only when the path names an
\* endpoint and both headers are present, and answers every other request
\* with 400 (no endpoint, checked first) or 401 without an upstream call.
C24_AsStated ==
  IsApi =>
    /\ inv.calls # << >> => (EndpointNamed /\ Authenticated)
    /\ ~EndpointNamed => Refused(400)
    /\ (EndpointNamed /\ ~Authenticated) => Refused(401)

\* C24, amended: the proxy answers an OPTIONS request with 204 before any
\* check and without an upstream call. For every other method it calls the
\* provider only when the path names an endpoint after /api/xero-api/ and
\* both the Authorization and Xero-Tenant-Id headers are present; otherwise
\* it answers 400 (no endpoint, checked first) or 401 without an upstream
\* call. When the provider has answered, its status is returned unchanged;
\* the request body is forwarded only for methods other than GET, and then
\* unchanged.
C24_ProxyChecks ==
  IsApi =>
    /\ inv.calls # << >> => (EndpointNamed /\ Authenticated /\ Len(inv.calls) = 1)
    /\ inv.req.httpMethod = "OPTIONS" => Refused(204)
    /\ inv.req.httpMethod # "OPTIONS" =>
         /\ ~EndpointNamed => Refused(400)
         /\ (EndpointNamed /\ ~Authenticated) => Refused(401)
    /\ (Done /\ inv.answers # << >> /\ ~inv.answers[1].fail) =>
         inv.resp.statusCode = inv.answers[1].status
    /\ inv.calls # << >> =>
         inv.calls[1].body = IF inv.req.httpMethod = "GET" THEN Undefined ELSE inv.req.body

\* a POST with a body has been forwarded and the 404 of the provider returned
C24_Witness ==
  /\ IsApi /\ Done /\ inv.calls # << >> /\ inv.answers # << >>
  /\ inv.req.httpMethod = "POST" /\ inv.calls[1].body = inv.req.body /\ ~Falsy(inv.req.body)
  /\ inv.answers[1].status = 404 /\ inv.resp.statusCode = 404

\* a request without endpoint and without headers has been answered with 400
C24_WitnessPrecedence ==
  /\ IsApi /\ ~EndpointNamed /\ ~Authenticated
  /\ inv.req.httpMethod = "GET"
  /\ Refused(400)


\* ------------------------------------------------------------------------
\* JSON texts of any kind, as the relay of the automation endpoint reads them
\* ------------------------------------------------------------------------

\* a run of one hundred zeros and a run of one hundred letters, each one
\* symbol of a text
ZeroRun == "0000000000000000000000000000000000000000000000000000000000000000000000000000000000000000000000000000"

LetterRun == "aaaaaaaaaaaaaaaaaaaaaaaaaaaaaaaaaaaaaaaaaaaaaaaaaaaaaaaaaaaaaaaaaaaaaaaaaaaaaaaaaaaaaaaaaaaaaaaaaaaa"

\* String.prototype.length: the number of characters of the symbols
RECURSIVE StringLength(_)
StringLength(s) == IF s = << >> THEN 0 ELSE Len(Head(s)) + StringLength(Tail(s))

\* the white space String.prototype.trim removes and JSON.parse skips, as far
\* as the texts hold it
WhiteSpace == { " ", "\t", "\n", "\r" }

RECURSIVE skipWhiteSpace(_)
skipWhiteSpace(s) ==
  IF s # << >> /\ Head(s) \in WhiteSpace THEN skipWhiteSpace(Tail(s)) ELSE s

\* a symbol of digits only
IsDigits(sym) == sym \in Digits \cup { ZeroRun }

RECURSIVE digitsPrefix(_)
digitsPrefix(s) == IF s # << >> /\ IsDigits(Head(s)) THEN 1 + digitsPrefix(Tail(s)) ELSE 0

\* a parsed value: its kind, the text JSON.stringify writes for it, the
\* characters of a string, whether it is truthy, and the own members of an
\* object, each with the same fields but for its own members
JsonValue(kind, raw, str, truthy, members) ==
  [kind |-> kind, raw |-> raw, str |-> str, truthy |-> truthy, members |-> members]

NoValue == JsonValue("undefined", << >>, << >>, FALSE, << >>)

JsonThrow == [ok |-> FALSE, val |-> NoValue, rest |-> << >>]

JsonRead(val, rest) == [ok |-> TRUE, val |-> val, rest |-> rest]

\* the digits of a fraction without its trailing zeros
RECURSIVE withoutTrailingZeros(_)
withoutTrailingZeros(ds) ==
  IF ds # << >> /\ ds[Len(ds)] \in { "0", ZeroRun }
  THEN withoutTrailingZeros(SubSeq(ds, 1, Len(ds) - 1)) ELSE ds

\* a number without exponent: an optional sign, an integer part without
\* leading zero, an optional fraction; it is written back without the
\* trailing zeros of its fraction, and zero without its sign
jsonReadNumber(s) ==
  LET negative == s # << >> /\ Head(s) = "-"
      s1 == IF negative THEN Tail(s) ELSE s
      n == digitsPrefix(s1)
      leadingZero == n > 0 /\ (s1[1] = ZeroRun \/ (s1[1] = "0" /\ n > 1))
      s2 == SubSeq(s1, n + 1, Len(s1))
      fraction == s2 # << >> /\ Head(s2) = "."
      m == IF fraction THEN digitsPrefix(Tail(s2)) ELSE 0
      rest == IF fraction THEN SubSeq(s2, m + 2, Len(s2)) ELSE s2
      kept == withoutTrailingZeros(SubSeq(s2, 2, m + 1))
      digits == SubSeq(s1, 1, n) \o (IF kept = << >> THEN << >> ELSE << "." >> \o kept)
      zero == \A i \in 1..Len(digits) : digits[i] \in { "0", "." }
  IN IF n = 0 \/ leadingZero \/ (fraction /\ m = 0) THEN JsonThrow
     ELSE JsonRead(JsonValue("number",
                             (IF negative /\ ~zero THEN << "-" >> ELSE << >>) \o digits,
                             << >>, ~zero, << >>),
                   rest)

\* the own members of an object: a repeated key keeps its first place and
\* its last value
ownMembers(fields) ==
  LET firsts == { i \in 1..Len(fields) : \A j \in 1..(i - 1) : fields[j].k # fields[i].k }
      place(n) == CHOOSE i \in firsts : Cardinality({ j \in firsts : j < i }) = n - 1
      last(key) == CHOOSE i \in 1..Len(fields) :
                     /\ fields[i].k = key
                     /\ \A j \in (i + 1)..Len(fields) : fields[j].k # key
  IN [n \in 1..Cardinality(firsts) |-> fields[last(fields[place(n)].k)]]

jsonArrayValue(items) == JsonValue("array", jsonArray(items), << >>, TRUE, << >>)

jsonObjectValue(fields) ==
  LET own == ownMembers(fields) IN
  JsonValue("object",
            jsonObject([i \in 1..Len(own) |-> [k |-> own[i].k, v |-> own[i].raw]]),
            << >>, TRUE, own)

RECURSIVE jsonReadValue(_)
RECURSIVE jsonReadItems(_, _)
RECURSIVE jsonReadFields(_, _)

\* the items of an array after its opening bracket or after a comma
jsonReadItems(s, acc) ==
  IF s # << >> /\ Head(s) = "]" /\ acc = << >> THEN JsonRead(jsonArrayValue(acc), Tail(s))
  ELSE
    LET item == jsonReadValue(s)
        after == skipWhiteSpace(item.rest)
        got == acc \o << item.val.raw >>
    IN IF ~item.ok \/ after = << >> THEN JsonThrow
       ELSE IF Head(after) = "]" THEN JsonRead(jsonArrayValue(got), Tail(after))
       ELSE IF Head(after) = "," THEN jsonReadItems(Tail(after), got)
       ELSE JsonThrow

\* the members of an object after its opening brace or after a comma
jsonReadFields(s, acc) ==
  IF s # << >> /\ Head(s) = "}" /\ acc = << >> THEN JsonRead(jsonObjectValue(acc), Tail(s))
  ELSE
    LET key == jsonReadString(s)
        colon == skipWhiteSpace(key.rest)
        val == jsonReadValue(Tail(colon))
        after == skipWhiteSpace(val.rest)
        got == acc \o << [k |-> key.val, kind |-> val.val.kind, raw |-> val.val.raw,
                          str |-> val.val.str, truthy |-> val.val.truthy] >>
    IN IF ~key.ok \/ colon = << >> \/ Head(colon) # ":" THEN JsonThrow
       ELSE IF ~val.ok \/ after = << >> THEN JsonThrow
       ELSE IF Head(after) = "}" THEN JsonRead(jsonObjectValue(got), Tail(after))
       ELSE IF Head(after) = "," THEN jsonReadFields(skipWhiteSpace(Tail(after)), got)
       ELSE JsonThrow

\* one value and the text after it
jsonReadValue(s0) ==
  LET s == skipWhiteSpace(s0)
      str == jsonReadString(s)
  IN IF s = << >> THEN JsonThrow
     ELSE IF Head(s) = "null" THEN
       JsonRead(JsonValue("null", << "null" >>, << >>, FALSE, << >>), Tail(s))
     ELSE IF Head(s) \in { "true", "false" } THEN
       JsonRead(JsonValue("boolean", << Head(s) >>, << >>, Head(s) = "true", << >>), Tail(s))
     ELSE IF Head(s) = "\"" THEN
       IF str.ok
       THEN JsonRead(JsonValue("string", jsonString(str.val), str.val, str.val # << >>,
                               << >>),
                     str.rest)
       ELSE JsonThrow
     ELSE IF Head(s) = "[" THEN jsonReadItems(skipWhiteSpace(Tail(s)), << >>)
     ELSE IF Head(s) = "{" THEN jsonReadFields(skipWhiteSpace(Tail(s)), << >>)
     ELSE jsonReadNumber(s)

\* JSON.parse of a text: [ok |-> FALSE] stands for the SyntaxError it throws
JSON_parse_value(text) ==
  CHOOSE parsed \in { IF v.ok /\ skipWhiteSpace(v.rest) = << >>
                      THEN [ok |-> TRUE, val |-> v.val]
                      ELSE [ok |-> FALSE, val |-> NoValue] :
                      v \in { jsonReadValue(text) } } : TRUE

\* value.name: undefined for a value without such a member
MemberValue(value, name) ==
  LET found == { i \in 1..Len(value.members) : value.members[i].k = name }
  IN IF found = {} THEN NoValue
     ELSE LET f == value.members[CHOOSE i \in found : TRUE]
          IN JsonValue(f.kind, f.raw, f.str, f.truthy, << >>)


\* ------------------------------------------------------------------------
\* make-webhook: the relay of invoice searches to the automation endpoint
\* ------------------------------------------------------------------------

makeCorsHeaders ==
  << Header("Access-Control-Allow-Origin", << "*" >>),
     Header("Access-Control-Allow-Headers", << "Content-Type" >>),
     Header("Access-Control-Allow-Methods", << "POST", ",", " ", "OPTIONS" >>) >>

makeJsonHeaders ==
  makeCorsHeaders \o << Header("Content-Type", << "application", "/", "json" >>) >>

\* an answer of the relay whose body is an object of these members
makeAnswer(statusCode, members) ==
  [statusCode |-> statusCode, headers |-> makeCorsHeaders, body |-> Str(jsonObject(members))]

makeError(statusCode, error, message) ==
  makeAnswer(statusCode, << [k |-> << "error" >>, v |-> jsonString(error)],
                            [k |-> << "message" >>, v |-> jsonString(message)] >>)

\* the outer catch block of the relay
makeCatch(message) == makeError(500, << "Server", " ", "error" >>, message)

makeCatchLine(message) ==
  ConsoleLine(<< << "Error", " ", "calling", " ", "Make", " ", "webhook", ":" >>, message >>)

\* error.message of the TypeError of requestData.tenantId for a body that is null
tenantOfNullMessage ==
  << "Cannot", " ", "read", " ", "properties", " ", "of", " ", "null", " ", "(", "reading",
     " ", "'", "tenantId", "'", ")" >>

\* the POST to the automation endpoint
MakeCall(url, body) ==
  [method |-> "POST", url |-> url,
   headers |-> << Header("Content-Type", << "application", "/", "json" >>) >>,
   body |-> body]

\* value || fallback, as JSON text
orJson(value, fallback) == IF value.truthy THEN value.raw ELSE fallback

\* the body of the POST to the automation endpoint
makeRequestBody(tenantId, requestData) ==
  LET field(name, fallback) ==
        [k |-> name, v |-> orJson(MemberValue(requestData, name), jsonString(fallback))]
  IN jsonObject(<< [k |-> << "tenantId" >>, v |-> tenantId],
                   field(<< "searchTerm" >>, << >>),
                   field(<< "status" >>, << >>),
                   field(<< "dateFrom" >>, << >>),
                   field(<< "dateTo" >>, << >>),
                   field(<< "sortBy" >>, << "Date" >>),
                   field(<< "sortOrder" >>, << "desc" >>) >>)

\* variant: the tenant of the cookie is preferred to the tenant of the body
makeTenantIdOfCookie(requestData, cookies) ==
  LET ofCookie == CookieValue(cookies, << "xero_tenant_id" >>) IN
  IF ~Falsy(ofCookie) THEN Str(jsonString(ofCookie[1]))
  ELSE IF MemberValue(requestData, << "tenantId" >>).truthy
  THEN Str(MemberValue(requestData, << "tenantId" >>).raw)
  ELSE Undefined

\* requestData.tenantId || cookies.xero_tenant_id, as JSON text; undefined
\* when neither is truthy
makeTenantId(requestData, cookies) ==
  LET ofCookie == CookieValue(cookies, << "xero_tenant_id" >>) IN
  IF MemberValue(requestData, << "tenantId" >>).truthy
  THEN Str(MemberValue(requestData, << "tenantId" >>).raw)
  ELSE IF Falsy(ofCookie) THEN Undefined
  ELSE Str(jsonString(ofCookie[1]))

\* the handler from its entry to its await
makeWebhookBegin(req, envv) ==
  LET cookies == cookie_parse(OrElse(req.cookie, Str(<< >>))[1])
      parsed == IF req.body = Undefined THEN [ok |-> FALSE, val |-> NoValue]
                ELSE JSON_parse_value(req.body[1])
      requestData == parsed.val
      tenantId == makeTenantId(requestData, cookies)
      webhookUrl == envv.MAKE_WEBHOOK_URL
      received == ConsoleLine(<< << "Received", " ", "request", " ", "body", ":" >>,
                                 OrElse(req.body, Str(<< "undefined" >>))[1] >>)
      return(resp) == Returned(<< >>, NoTokenData, resp)
  IN IF req.httpMethod = "OPTIONS" THEN
       return([statusCode |-> 204, headers |-> makeCorsHeaders, body |-> Undefined])
     ELSE IF ~isAuthenticated(cookies) THEN
       return(makeError(401, << "Unauthorized" >>,
                        << "Please", " ", "connect", " ", "to", " ", "Xero", " ", "first" >>))
     ELSE IF ~parsed.ok THEN
       Logged(<< received,
                 << "Error", " ", "parsing", " ", "request", " ", "body", ":" >> >>,
              return(makeError(400, << "Bad", " ", "Request" >>,
                               << "Invalid", " ", "JSON", " ", "in", " ", "request", " ",
                                  "body" >>)))
     ELSE IF requestData.kind = "null" THEN
       Logged(<< received, makeCatchLine(tenantOfNullMessage) >>,
              return(makeCatch(tenantOfNullMessage)))
     ELSE IF tenantId = Undefined THEN
       Logged(<< received >>,
              return(makeError(400, << "Bad", " ", "Request" >>,
                               << "Missing", " ", "tenant", " ", "ID" >>)))
     ELSE IF Falsy(webhookUrl) THEN
       Logged(<< received,
                 << "Missing", " ", "MAKE_WEBHOOK_URL", " ", "environment", " ",
                    "variable" >> >>,
              return(makeError(500, << "Server", " ", "Configuration", " ", "Error" >>,
                               << "Webhook", " ", "URL", " ", "not", " ", "configured", ".",
                                  " ", "Please", " ", "contact", " ", "the", " ",
                                  "administrator", "." >>)))
     ELSE
       Logged(<< received >>,
              Awaiting("make",
                       << MakeCall(webhookUrl[1], makeRequestBody(tenantId[1], requestData)) >>,
                       NoTokenData))

\* String.prototype.trim
RECURSIVE trimEnd(_)
trimEnd(s) ==
  IF s # << >> /\ s[Len(s)] \in WhiteSpace THEN trimEnd(SubSeq(s, 1, Len(s) - 1)) ELSE s

trim(s) == trimEnd(skipWhiteSpace(s))

\* String.prototype.substring(0, n), for a text in which a symbol ends at
\* the n-th character or the text is shorter
RECURSIVE substring(_, _)
substring(s, n) ==
  IF s = << >> \/ Len(Head(s)) > n THEN << >>
  ELSE << Head(s) >> \o substring(Tail(s), n - Len(Head(s)))

\* /^\s*\d+\s*$/.test(responseText)
isJustNumber(responseText) ==
  /\ trim(responseText) # << >>
  /\ \A i \in 1..Len(trim(responseText)) : IsDigits(trim(responseText)[i])

\* variant: a text without brackets is simple whatever its length
isSimpleTextOfAnyLength(responseText) ==
  \A i \in 1..Len(responseText) : responseText[i] \notin { "{", "[" }

\* responseText.length < 100 && !includes('{') && !includes('[')
isSimpleText(responseText) ==
  /\ StringLength(responseText) < 100
  /\ \A i \in 1..Len(responseText) : responseText[i] \notin { "{", "[" }

\* the handler from the answer of the automation endpoint to its return
makeWebhookOnResponse(inv0, r) ==
  LET responseText == r.text
      parsed == JSON_parse_value(responseText)
      responseData == parsed.val
      raw == ConsoleLine(<< << "Raw", " ", "response", " ", "from", " ", "Make.com", ":" >>,
                            responseText >>)
      return(resp) == Returned(inv0.calls, NoTokenData, resp)
      ok(body) == [statusCode |-> 200, headers |-> makeJsonHeaders, body |-> Str(body)]
  IN IF r.fail THEN
       Logged(<< makeCatchLine(fetchErrorMessage(inv0.calls[1].url)) >>,
              return(makeCatch(fetchErrorMessage(inv0.calls[1].url))))
     ELSE IF responseText = << >> \/ trim(responseText) = << >> THEN
       Logged(<< raw, << "Empty", " ", "response", " ", "received", " ", "from", " ",
                        "Make.com" >> >>,
              return(ok(jsonArray(<< >>))))
     ELSE IF isJustNumber(responseText) \/ isSimpleText(responseText) THEN
       Logged(<< raw >>,
              return(makeAnswer(502, <<
                [k |-> << "error" >>, v |-> jsonString(<< "Integration", " ", "Error" >>)],
                [k |-> << "message" >>,
                 v |-> jsonString(<< "Make.com", " ", "webhook", " ", "is", " ", "not", " ",
                                     "configured", " ", "to", " ", "return", " ", "proper",
                                     " ", "invoice", " ", "data", "." >>)],
                [k |-> << "responseValue" >>, v |-> jsonString(responseText)] >>)))
     ELSE IF ~parsed.ok THEN
       Logged(<< raw >>,
              return(makeAnswer(502, <<
                [k |-> << "error" >>, v |-> jsonString(<< "Parse", " ", "Error" >>)],
                [k |-> << "message" >>,
                 v |-> jsonString(<< "Unable", " ", "to", " ", "parse", " ", "response", " ",
                                     "from", " ", "Make.com", " ", "as", " ", "JSON" >>)],
                [k |-> << "responsePreview" >>,
                 v |-> jsonString(substring(responseText, 100))] >>)))
     ELSE IF responseData.kind = "array" THEN
       Logged(<< raw >>, return(ok(responseData.raw)))
     ELSE IF /\ responseData.truthy
             /\ MemberValue(responseData, << "Invoices" >>).truthy
             /\ MemberValue(responseData, << "Invoices" >>).kind = "array" THEN
       Logged(<< raw >>, return(ok(responseData.raw)))
     ELSE
       Logged(<< raw >>,
              return(makeAnswer(500, <<
                [k |-> << "error" >>, v |-> jsonString(<< "Invalid", " ", "Response" >>)],
                [k |-> << "message" >>,
                 v |-> jsonString(<< "Received", " ", "unexpected", " ", "data", " ",
                                     "format", " ", "from", " ", "Make.com", " ",
                                     "webhook" >>)],
                [k |-> << "data" >>, v |-> responseData.raw] >>)))


\* process.env of the relay
MakeEnvs ==
  [MAKE_WEBHOOK_URL :
     { Undefined, Str(<< "https", ":", "/", "/", "hook.example", "/", "k", "1" >>) }]

\* event.body of the requests to the relay
MakeBodies ==
  LET member(name, value) == << "\"", name, "\"", ":", "\"" >> \o value \o << "\"" >>
  IN { Undefined,
       Str(<< "{" >>),
       Str(<< "null" >>),
       Str(<< "5" >>),
       Str(<< "{", "}" >>),
       Str(<< "{" >> \o member("tenantId", << "T", "-", "2" >>) \o << "}" >>),
       Str(<< "{" >> \o member("tenantId", << >>) \o << "," >>
           \o member("searchTerm", << "inv" >>) \o << "}" >>),
       Str(<< "{" >> \o member("tenantId", << "T", "-", "2" >>) \o << ",", " " >>
           \o member("searchTerm", << "inv" >>) \o << "," >>
           \o member("sortBy", << "Total" >>) \o << "," >>
           \o member("sortOrder", << >>) \o << "}" >>) }

\* the requests to the relay
MakeRequests ==
  [httpMethod : { "POST", "GET", "OPTIONS" }, cookie : SessionCookies, body : MakeBodies]

\* the texts the automation endpoint answers with
MakeTexts ==
  LET invoices(value) == << "{", "\"", "Invoices", "\"", ":" >> \o value \o << "}" >>
  IN { << >>,
       << " ", "\n" >>,
       << "4", "2" >>,
       << " ", "7", "\n" >>,
       << ZeroRun >>,
       << "Accepted" >>,
       << "null" >>,
       << "-", "1", ".", "5" >>,
       << "1", ".", ZeroRun >>,
       << LetterRun >>,
       << "\"", LetterRun, "\"" >>,
       << "[", "]" >>,
       << " ", "[", "{", "\"", "InvoiceID", "\"", ":", "\"", "1", "\"", "}", " ", "]", "\n" >>,
       << "[", "1", ",", "]" >>,
       invoices(<< "[", "]" >>),
       invoices(<< "\"", "none", "\"" >>),
       << "{", "\"", "Invoices", "\"", ":", "[" >>,
       << "{", "\"", "error", "\"", ":", "\"", "x", "\"", "}" >> }

\* the answers of the automation endpoint: a failed request, or a status and
\* a text
MakeResponses ==
  { [fail |-> TRUE, status |-> 0, text |-> << >>] }
  \cup [fail : { FALSE }, status : { 200, 400 }, text : MakeTexts]

\* the relay is deployed with or without its webhook URL
MakeInit ==
  /\ now = StartOfTime
  /\ env \in MakeEnvs
  /\ jar = << >>
  /\ auth = NoAuth
  /\ exhausted = FALSE
  /\ inv = Idle
  /\ first = NoAttempt
  /\ db = NoDb
  /\ page = LoadedPage

\* a request to /api/make-webhook
MakeRequest ==
  /\ inv.pc = "idle"
  /\ \E r \in MakeRequests :
       LET req == [httpMethod |-> r.httpMethod, cookie |-> r.cookie, body |-> r.body,
                   viaBrowser |-> FALSE]
       IN \E next \in { Invocation("make", req, << >>, makeWebhookBegin(req, env), now) } :
            inv' = next
  /\ UNCHANGED << now, env, jar, auth, exhausted >>
  /\ UNCHANGED elsewhere

\* the automation endpoint answers the relay
MakeResponse ==
  /\ inv.handler = "make" /\ inv.pc = "make"
  /\ \E r \in MakeResponses :
       \E next \in { Invocation("make", inv.req, inv.answers \o << r >>,
                                makeWebhookOnResponse(inv, r), now) } :
         inv' = next
  /\ UNCHANGED << now, env, jar, auth, exhausted >>
  /\ UNCHANGED elsewhere

MakeNext ==
  \/ MakeRequest
  \/ MakeResponse
  \/ Return

\* the relay alone, one request at a time
MakeSpec == MakeInit /\ [][MakeNext]_vars


\* ------------------------------------------------------------------------
\* The relay as the claims speak of it
\* ------------------------------------------------------------------------

IsMake == inv.handler = "make"

\* the automation endpoint has answered and the relay has returned
MakeAnswered == IsMake /\ Done /\ inv.answers # << >> /\ ~inv.answers[1].fail

\* the body is empty or white space
Blank(text) == \A i \in 1..Len(text) : text[i] \in WhiteSpace

\* the body is a JSON array, or a JSON object with an Invoices array
InvoiceList(text) ==
  \E parsed \in { JSON_parse_value(text) } :
    /\ parsed.ok
    /\ \/ parsed.val.kind = "array"
       \/ /\ parsed.val.kind = "object"
          /\ MemberValue(parsed.val, << "Invoices" >>).kind = "array"

\* the body is digits and nothing else but white space around them
BareNumber(text) ==
  \E i, j \in 1..Len(text) :
    /\ i <= j
    /\ \A k \in 1..Len(text) :
         IF k < i \/ k > j THEN text[k] \in WhiteSpace ELSE IsDigits(text[k])

\* the body has fewer than a hundred characters and no opening bracket or brace
ShortWithoutBrackets(text) ==
  /\ StringLength(text) < 100
  /\ ~\E k \in 1..Len(text) : text[k] \in { "[", "{" }

\* C25: whatever the status of the automation endpoint, the relay answers
\* 200 exactly when the body of the endpoint is empty or white space (and
\* then with the empty list), is a JSON array, or is a JSON object with an
\* Invoices array; otherwise it answers 502 when the body is a bare number,
\* a short text without brackets, or not JSON, and 500 for any other JSON
\* value.
C25_ResponseByContent ==
  MakeAnswered =>
    \E text \in { inv.answers[1].text } :
      /\ inv.resp.statusCode = 200 <=> (Blank(text) \/ InvoiceList(text))
      /\ Blank(text) => inv.resp.body = Str(<< "[", "]" >>)
      /\ inv.resp.statusCode # 200 =>
           inv.resp.statusCode
             = IF \/ BareNumber(text)
                  \/ ShortWithoutBrackets(text)
                  \/ ~JSON_parse_value(text).ok
               THEN 502 ELSE 500

\* a status 400 of the endpoint with a list of invoices has been answered with 200
C25_Witness ==
  /\ MakeAnswered
  /\ inv.answers[1].status = 400
  /\ ~Blank(inv.answers[1].text) /\ InvoiceList(inv.answers[1].text)
  /\ inv.resp.statusCode = 200

\* a JSON string of a hundred characters and more has been answered with 500
C25_WitnessOther ==
  /\ MakeAnswered
  /\ inv.answers[1].status = 200
  /\ inv.answers[1].text = << "\"", LetterRun, "\"" >>
  /\ inv.resp.statusCode = 500

\* a text of a hundred characters that is not JSON has been answered with 502
C25_WitnessNotJson ==
  /\ MakeAnswered
  /\ inv.answers[1].text = << LetterRun >>
  /\ inv.resp.statusCode = 502


\* the cookies of the request to the relay, as the cookie parser reads them
MakeCookies == cookie_parse(OrElse(inv.req.cookie, Str(<< >>))[1])

\* the body of the request parses as JSON
MakeBodyParses == inv.req.body # Undefined /\ JSON_parse_value(inv.req.body[1]).ok

\* the tenant id of the body of the request: undefined when the body has none
MakeBodyTenant ==
  LET tenant == MemberValue(JSON_parse_value(inv.req.body[1]).val, << "tenantId" >>)
  IN IF tenant.kind = "string" /\ tenant.str # << >> THEN Str(tenant.str) ELSE Undefined

\* the tenant id the claim expects to be used
MakeExpectedTenant ==
  IF MakeBodyTenant # Undefined THEN MakeBodyTenant
  ELSE CookieValue(MakeCookies, << "xero_tenant_id" >>)

\* C26: to a request that is not an OPTIONS the relay answers 401 unless the
\* xero_authenticated cookie is 'true'; otherwise 400 unless the body parses
\* as JSON; otherwise 400 unless a tenant id is given by the body or, failing
\* that, by the xero_tenant_id cookie; otherwise 500 unless the webhook URL
\* is configured; none of these answers follows a call of the automation
\* endpoint. Otherwise the endpoint is called once, with the tenant id of the
\* body when the body has one and of the cookie when it has not.
C26_RequestChecks ==
  (IsMake /\ inv.req.httpMethod # "OPTIONS") =>
    IF CookieValue(MakeCookies, << "xero_authenticated" >>) # Str(<< "true" >>)
    THEN Refused(401)
    ELSE IF ~MakeBodyParses THEN Refused(400)
    ELSE IF Falsy(MakeExpectedTenant) THEN Refused(400)
    ELSE IF Falsy(env.MAKE_WEBHOOK_URL) THEN Refused(500)
    ELSE /\ Len(inv.calls) = 1
         /\ inv.calls[1].url = env.MAKE_WEBHOOK_URL[1]
         /\ MemberValue(JSON_parse_value(inv.calls[1].body).val, << "tenantId" >>).str
              = MakeExpectedTenant[1]


\* ------------------------------------------------------------------------
\* firebase-api: the document store of notes and reminders
\* ------------------------------------------------------------------------

\* the most documents a collection holds
MaxNotes == 5

MaxReminders == 1

\* admin.firestore() was obtained: db is a reference to empty collections
EmptyDb == [available |-> TRUE, notes |-> << >>, reminders |-> << >>]

\* res.status(statusCode).json(body)
storeAnswer(statusCode, members) ==
  [statusCode |-> statusCode,
   headers |-> << Header("Content-Type", << "application", "/", "json" >>) >>,
   body |-> Str(jsonObject(members))]

storeError(statusCode, error) ==
  storeAnswer(statusCode, << [k |-> << "error" >>, v |-> jsonString(error)] >>)

\* the answer of ensureDb when db is null
databaseFailed ==
  storeError(500, << "Database", " ", "connection", " ", "failed", ".", " ", "Check", " ",
                     "function", " ", "logs", "." >>)

\* variant: a field of white space only is taken for a value
fieldMissingUnlessBlank(body, field) == Falsy(body[field])

\* !req.body[field] || (typeof req.body[field] === 'string' && req.body[field].trim() === '')
fieldMissing(body, field) == Falsy(body[field]) \/ trim(body[field][1]) = << >>

\* validateRequest: the first required field that is missing, in the order
\* of the list; no field when all are there
RECURSIVE firstMissing(_, _)
firstMissing(body, requiredFields) ==
  IF requiredFields = << >> THEN << >>
  ELSE IF fieldMissing(body, Head(requiredFields)) THEN << Head(requiredFields) >>
  ELSE firstMissing(body, Tail(requiredFields))

\* the answer of validateRequest for a missing field
validationFailed(field) ==
  storeError(400, << "Missing", " ", "or", " ", "invalid", " ", "required", " ", "field", ":",
                     " ", field >>)

\* the engines differ on a day of the month that the month does not have:
\* some roll it over into the next month, some reject the text
DateParsers == { "rolls over", "rejects" }

daysInMonth(year, month) ==
  IF month = 2 THEN (IF year % 4 = 0 /\ (year % 100 # 0 \/ year % 400 = 0) THEN 29 ELSE 28)
  ELSE IF month \in { 4, 6, 9, 11 } THEN 30 ELSE 31

\* new Date(dueDate) for a text: the date of a text of the form YYYY-MM-DD,
\* and the invalid date (valid |-> FALSE) for every other text of the requests
newDate(dueDate, parser) ==
  LET invalid == [valid |-> FALSE, year |-> 0, month |-> 0, day |-> 0]
      form == /\ Len(dueDate) = 10
              /\ \A i \in 1..10 : IF i \in { 5, 8 } THEN dueDate[i] = "-"
                                  ELSE dueDate[i] \in Digits
      year == StringToNumber(SubSeq(dueDate, 1, 4))
      month == StringToNumber(SubSeq(dueDate, 6, 7))
      day == StringToNumber(SubSeq(dueDate, 9, 10))
  IN IF ~form THEN invalid
     ELSE IF month \notin 1..12 \/ day \notin 1..31 THEN invalid
     ELSE IF day <= daysInMonth(year, month)
     THEN [valid |-> TRUE, year |-> year, month |-> month, day |-> day]
     ELSE IF parser = "rejects" THEN invalid
     ELSE [valid |-> TRUE, year |-> IF month = 12 THEN year + 1 ELSE year,
           month |-> IF month = 12 THEN 1 ELSE month + 1,
           day |-> day - daysInMonth(year, month)]

invalidDueDate ==
  storeError(400, << "Invalid", " ", "due", " ", "date", " ", "format", ".", " ", "Please",
                     " ", "use", " ", "YYYY-MM-DD", " ", "or", " ", "a", " ", "full", " ",
                     "ISO", " ", "string", "." >>)

\* the answer to a write that the store accepted; the identifier the store
\* gave the document is not followed
added(message) ==
  storeAnswer(201, << [k |-> << "id" >>, v |-> jsonString(<< "doc" >>)],
                      [k |-> << "success" >>, v |-> << "true" >>],
                      [k |-> << "message" >>, v |-> jsonString(message)] >>)

\* the answer of the catch block of a write
addFailed(error) ==
  storeAnswer(500, << [k |-> << "error" >>, v |-> jsonString(error)],
                      [k |-> << "details" >>, v |-> jsonString(<< "UNAVAILABLE" >>)] >>)

\* noteData: the requests carry neither invoiceId nor category
noteData(body, t) ==
  [accountNumber |-> body.accountNumber[1], text |-> body.text[1],
   createdAt |-> t, updatedAt |-> t]

\* reminderData: the requests carry neither invoiceId nor recurring
reminderData(body, dueDate, t) ==
  [accountNumber |-> body.accountNumber[1], text |-> body.text[1], dueDate |-> dueDate,
   completed |-> FALSE, recurring |-> "null", createdAt |-> t]

\* a collection after the store has given the document its identifier: the
\* collections are kept in the order of the identifiers, and the identifier
\* is random
Inserted(docs, doc) ==
  { SubSeq(docs, 1, i) \o << doc >> \o SubSeq(docs, i + 1, Len(docs)) : i \in 0..Len(docs) }

\* router.post('/notes'): what it decides before it writes; write says
\* whether db.collection('notes').add is called
postNote(database, body) ==
  LET missing == firstMissing(body, << "accountNumber", "text" >>)
  IN IF ~database.available THEN [write |-> FALSE, resp |-> databaseFailed]
     ELSE IF missing # << >> THEN [write |-> FALSE, resp |-> validationFailed(missing[1])]
     ELSE [write |-> TRUE, resp |-> added(<< "Note", " ", "added", " ", "successfully" >>)]

\* router.post('/reminders'): what it decides before it writes
postReminder(database, body, parser) ==
  LET missing == firstMissing(body, << "accountNumber", "text", "dueDate" >>)
  IN IF ~database.available THEN [write |-> FALSE, resp |-> databaseFailed]
     ELSE IF missing # << >> THEN [write |-> FALSE, resp |-> validationFailed(missing[1])]
     ELSE IF ~newDate(body.dueDate[1], parser).valid
     THEN [write |-> FALSE, resp |-> invalidDueDate]
     ELSE [write |-> TRUE,
           resp |-> added(<< "Reminder", " ", "added", " ", "successfully" >>)]


\* the items of accountNumbers that the filter keeps: the non-empty strings
\* that are not white space only, in their order
RECURSIVE validAccountNumbers(_)
validAccountNumbers(items) ==
  IF items = << >> THEN << >>
  ELSE (IF Head(items).kind = "string" /\ trim(Head(items).str) # << >>
        THEN << Head(items).str >> ELSE << >>)
       \o validAccountNumbers(Tail(items))

\* the query of batch-status on a collection
StatusQuery(collection, accountNumbers) ==
  [collection |-> collection, accountNumbers |-> accountNumbers,
   limit |-> Len(accountNumbers) * 2]

\* the account numbers among the first documents, limit at most, of the
\* collection that have one of the account numbers of the query
RECURSIVE queryResult(_, _, _)
queryResult(docs, accountNumbers, limit) ==
  IF docs = << >> \/ limit = 0 THEN << >>
  ELSE IF \E i \in 1..Len(accountNumbers) : accountNumbers[i] = Head(docs).accountNumber
  THEN << Head(docs).accountNumber >> \o queryResult(Tail(docs), accountNumbers, limit - 1)
  ELSE queryResult(Tail(docs), accountNumbers, limit)

\* variant: a read that failed is taken for a read that found every account
flagOfAnyResult(result, accNum) ==
  result.status = "rejected" \/ \E i \in 1..Len(result.value) : result.value[i] = accNum

\* the flag of an account after the result of a read has been gone through
flagOf(result, accNum) ==
  result.status = "fulfilled" /\ \E i \in 1..Len(result.value) : result.value[i] = accNum

\* the keys of statusMap: the valid account numbers, each at its first place
statusKeys(valid) ==
  LET firsts == { i \in 1..Len(valid) : \A j \in 1..(i - 1) : valid[j] # valid[i] }
      place(n) == CHOOSE i \in firsts : Cardinality({ j \in firsts : j < i }) = n - 1
  IN [n \in 1..Cardinality(firsts) |-> valid[place(n)]]

jsonOfBoolean(b) == IF b THEN << "true" >> ELSE << "false" >>

\* res.status(200).json(statusMap)
statusMapAnswer(valid, results) ==
  LET keys == statusKeys(valid) IN
  storeAnswer(200,
    [n \in 1..Len(keys) |->
       [k |-> keys[n],
        v |-> jsonObject(<<
          [k |-> << "hasNote" >>, v |-> jsonOfBoolean(flagOf(results[1], keys[n]))],
          [k |-> << "hasReminder" >>,
           v |-> jsonOfBoolean(flagOf(results[2], keys[n]))] >>)]])

\* a read that has not settled
PendingRead == [status |-> "pending", value |-> << >>]

\* router.post('/batch-status') from its entry to its await
batchStatusBegin(database, body) ==
  LET valid == validAccountNumbers(body.accountNumbers.items)
      return(resp) == Returned(<< >>, NoTokenData, resp)
  IN IF ~database.available THEN return(databaseFailed)
     ELSE IF ~body.accountNumbers.isArray \/ body.accountNumbers.items = << >> THEN
       return(storeError(400, << "Missing", " ", "or", " ", "invalid", " ",
                                 "accountNumbers", " ", "array", " ", "in", " ", "request",
                                 " ", "body", "." >>))
     ELSE IF valid = << >> THEN return(storeAnswer(200, << >>))
     ELSE Awaiting("reads",
                   << StatusQuery("notes", valid), StatusQuery("reminders", valid) >>,
                   NoTokenData)

\* router.post('/batch-status') once Promise.allSettled has settled
batchStatusOnSettled(calls, results) ==
  IF \E k \in 1..2 : results[k].status = "pending"
  THEN Awaiting("reads", calls, NoTokenData)
  ELSE Returned(calls, NoTokenData, statusMapAnswer(calls[1].accountNumbers, results))

\* req.body of the requests that add a note
NoteBodies ==
  [accountNumber : { Undefined, Str(<< " " >>), Str(<< "A", "1" >>), Str(<< "B", "2" >>) },
   text : { Undefined, Str(<< " ", "\t" >>), Str(<< "call" >>) },
   dueDate : { Undefined }]

\* req.body of the requests that add a reminder
ReminderBodies ==
  [accountNumber : { Undefined, Str(<< "A", "1" >>), Str(<< "B", "2" >>) },
   text : { Str(<< " " >>), Str(<< "call" >>) },
   dueDate : { Undefined, Str(<< " " >>), Str(<< "soon" >>),
               Str(<< "2", "0", "2", "4", "-", "0", "3", "-", "1", "5" >>),
               Str(<< "2", "0", "2", "4", "-", "0", "2", "-", "3", "0" >>),
               Str(<< "2", "0", "2", "4", "-", "1", "3", "-", "0", "1" >>) }]

\* req.body.accountNumbers of the requests for the status of accounts
AccountNumberLists ==
  LET string(s) == [kind |-> "string", str |-> s]
      a1 == string(<< "A", "1" >>)
      b2 == string(<< "B", "2" >>)
      array(items) == [isArray |-> TRUE, items |-> items]
  IN { [isArray |-> FALSE, items |-> << >>],
       array(<< >>),
       array(<< string(<< >>), [kind |-> "number", str |-> << "7" >>] >>),
       array(<< a1 >>),
       array(<< a1, b2 >>),
       array(<< b2, string(<< " " >>), a1, b2 >>) }

\* the function is deployed with or without its database
StoreInit ==
  /\ now = StartOfTime
  /\ env \in Envs
  /\ env.XERO_CLIENT_ID # Undefined /\ env.XERO_CLIENT_SECRET # Undefined /\ env.URL # Undefined
  /\ jar = << >>
  /\ auth = NoAuth
  /\ exhausted = FALSE
  /\ inv = Idle
  /\ first = NoAttempt
  /\ db \in { NoDb, EmptyDb }
  /\ page = LoadedPage

\* POST /api/firebase-api/notes, to its answer: the write of a request that
\* passed the checks is accepted by the store or rejected
PostNote ==
  /\ inv.pc = "idle"
  /\ \E body \in NoteBodies, accepted \in BOOLEAN :
       LET decided == postNote(db, body)
           req == [route |-> "/notes", body |-> body, viaBrowser |-> FALSE]
           resp == IF ~decided.write \/ accepted THEN decided.resp
                   ELSE addFailed(<< "Failed", " ", "to", " ", "add", " ", "note" >>)
       IN /\ decided.write => Len(db.notes) < MaxNotes
          /\ ~decided.write => accepted
          /\ inv' = Invocation("store", req, << >>, Returned(<< >>, NoTokenData, resp), now)
          /\ IF decided.write /\ accepted
             THEN \E docs \in Inserted(db.notes, noteData(body, now)) :
                    db' = [db EXCEPT !.notes = docs]
             ELSE db' = db
  /\ UNCHANGED << now, env, jar, auth, exhausted, first, page >>

\* POST /api/firebase-api/reminders, to its answer
PostReminder ==
  /\ inv.pc = "idle"
  /\ \E body \in ReminderBodies, parser \in DateParsers, accepted \in BOOLEAN :
       LET decided == postReminder(db, body, parser)
           req == [route |-> "/reminders", body |-> body, parser |-> parser,
                   viaBrowser |-> FALSE]
           resp == IF ~decided.write \/ accepted THEN decided.resp
                   ELSE addFailed(<< "Failed", " ", "to", " ", "add", " ", "reminder" >>)
       IN /\ decided.write => Len(db.reminders) < MaxReminders
          /\ ~decided.write => accepted
          /\ inv' = Invocation("store", req, << >>, Returned(<< >>, NoTokenData, resp), now)
          /\ IF decided.write /\ accepted
             THEN \E docs \in Inserted(db.reminders,
                                       reminderData(body, newDate(body.dueDate[1], parser),
                                                    now)) :
                    db' = [db EXCEPT !.reminders = docs]
             ELSE db' = db
  /\ UNCHANGED << now, env, jar, auth, exhausted, first, page >>

\* POST /api/firebase-api/batch-status, to its await
BatchStatus ==
  /\ inv.pc = "idle"
  /\ \E accountNumbers \in AccountNumberLists :
       LET req == [route |-> "/batch-status", body |-> [accountNumbers |-> accountNumbers],
                   viaBrowser |-> FALSE]
       IN inv' = Invocation("store", req, << PendingRead, PendingRead >>,
                            batchStatusBegin(db, req.body), now)
  /\ UNCHANGED << now, env, jar, auth, exhausted >>
  /\ UNCHANGED elsewhere

\* one of the two reads of batch-status settles: it gives the documents the
\* query finds, or it fails
ReadSettles ==
  /\ inv.handler = "store" /\ inv.pc = "reads"
  /\ \E k \in 1..2, fulfilled \in BOOLEAN :
       LET docs == IF k = 1 THEN db.notes ELSE db.reminders
           result == IF fulfilled
                     THEN [status |-> "fulfilled",
                           value |-> queryResult(docs, inv.calls[k].accountNumbers,
                                                 inv.calls[k].limit)]
                     ELSE [status |-> "rejected", value |-> << >>]
           results == [inv.answers EXCEPT ![k] = result]
       IN /\ inv.answers[k].status = "pending"
          /\ inv' = Invocation("store", inv.req, results,
                               batchStatusOnSettled(inv.calls, results), now)
  /\ UNCHANGED << now, env, jar, auth, exhausted >>
  /\ UNCHANGED elsewhere

StoreNext ==
  \/ PostNote
  \/ PostReminder
  \/ BatchStatus
  \/ ReadSettles
  \/ Return

\* the document store alone, one request at a time
StoreSpec == StoreInit /\ [][StoreNext]_vars


\* ------------------------------------------------------------------------
\* The document store as the claims speak of it
\* ------------------------------------------------------------------------

IsStore == inv.handler = "store"

\* the field of the body is there and is not white space only
Present(body, field) ==
  /\ body[field] # Undefined
  /\ \E i \in 1..Len(body[field][1]) : body[field][1][i] \notin WhiteSpace

\* the request may write: the fields its route requires are present and the
\* due date of a reminder parses to a valid date
Writable(req) ==
  /\ Present(req.body, "accountNumber") /\ Present(req.body, "text")
  /\ req.route = "/reminders" =>
       /\ Present(req.body, "dueDate")
       /\ newDate(req.body.dueDate[1], req.parser).valid

\* the documents of the collection a route writes to
Collection(database, route) ==
  IF route = "/notes" THEN database.notes ELSE database.reminders

C27_WitnessRefused ==
  /\ IsStore /\ Done
  /\ inv.req.route = "/reminders"
  /\ Present(inv.req.body, "accountNumber") /\ Present(inv.req.body, "text")
  /\ inv.req.body.dueDate = Str(<< "soon" >>)
  /\ inv.resp.statusCode = 400
  /\ db = EmptyDb

\* a complete note has been answered with 500 for want of the database
C27_WitnessNoDatabase ==
  /\ IsStore /\ Done
  /\ inv.req.route = "/notes" /\ Writable(inv.req)
  /\ ~db.available
  /\ inv.resp.statusCode = 500


\* batch-status has answered after both of its reads gave their documents
BothReadsSucceeded ==
  /\ IsStore /\ Done /\ inv.req.route = "/batch-status"
  /\ inv.calls # << >>
  /\ \A k \in 1..2 : inv.answers[k].status = "fulfilled"

\* the requested account numbers that are non-empty strings
RequestedAccounts ==
  { inv.req.body.accountNumbers.items[i].str :
      i \in { j \in 1..Len(inv.req.body.accountNumbers.items) :
                /\ inv.req.body.accountNumbers.items[j].kind = "string"
                /\ \E n \in 1..Len(inv.req.body.accountNumbers.items[j].str) :
                     inv.req.body.accountNumbers.items[j].str[n] \notin WhiteSpace } }

\* the entries of the map of the answer
StatusEntries == JSON_parse_value(inv.resp.body[1]).val.members

\* the entry of an account says these two flags
EntrySays(entry, hasNote, hasReminder) ==
  entry.raw = jsonObject(<< [k |-> << "hasNote" >>, v |-> jsonOfBoolean(hasNote)],
                            [k |-> << "hasReminder" >>, v |-> jsonOfBoolean(hasReminder)] >>)

HasDocument(docs, accNum) == \E i \in 1..Len(docs) : docs[i].accountNumber = accNum

\* C28: when both reads of batch-status succeed, whatever the notes and
\* reminders of the store, the map of the answer has exactly one entry for
\* each valid requested account number, and the entry of an account says
\* hasNote exactly when some note has that accountNumber and hasReminder
\* exactly when some reminder has it.
C28_StatusOfEveryAccount ==
  BothReadsSucceeded =>
    /\ inv.resp.statusCode = 200
    /\ { StatusEntries[i].k : i \in 1..Len(StatusEntries) } = RequestedAccounts
    /\ Len(StatusEntries) = Cardinality(RequestedAccounts)
    /\ \A i \in 1..Len(StatusEntries) :
         EntrySays(StatusEntries[i],
                   HasDocument(db.notes, StatusEntries[i].k),
                   HasDocument(db.reminders, StatusEntries[i].k))


IsBatchStatus == IsStore /\ inv.req.route = "/batch-status"

\* the flag a read that settled gives an account: false when the read failed
FlagOfRead(k, accNum) ==
  /\ inv.answers[k].status = "fulfilled"
  /\ \E i \in 1..Len(inv.answers[k].value) : inv.answers[k].value[i] = accNum

C29_WitnessWaiting ==
  /\ IsBatchStatus /\ ~Done
  /\ inv.answers[1].status = "pending" /\ inv.answers[2].status = "rejected"


\* ------------------------------------------------------------------------
\* notes-reminders.js: the notes and reminders of the invoice on display
\* ------------------------------------------------------------------------

\* the most calls of initNotesAndReminders that are followed
MaxInits == 2

\* the invoices whose details are opened: without identifier, without
\* account number, and of two accounts
Invoices ==
  [InvoiceID : { Undefined, Str(<< "INV", "-", "1" >>) },
   AccountNumber : { Undefined, Str(<< "A", "1" >>), Str(<< "B", "2" >>) }]

\* the records the document store holds for an account
RecordsOf(kind, accountNumber) ==
  << [id |-> << kind, "-", "1" >>, accountNumber |-> accountNumber] >>

\* the outcomes of a fetch: the request fails, the status is not ok, or the
\* status is ok and the body is the records of the account, an object
\* without the list, or no JSON
FetchOutcomes == { "failed", "not ok", "records", "no list", "not json" }

\* the list element after displayNotes or displayReminders: innerHTML is
\* written anew, which removes the error message and the loading indicator
displayed(records) == [items |-> records, error |-> FALSE, loading |-> FALSE]

\* toggleLoading(containerId, show)
toggleLoading(list, show) == [list EXCEPT !.loading = show]

\* showError(containerId, message), as long as the message stays
showError(list) == [list EXCEPT !.error = TRUE]

\* a fetch of fetchNotes or fetchReminders that waits for its response
Fetching(n, kind, accountNumber) ==
  [init |-> n, kind |-> kind, accountNumber |-> accountNumber, stage |-> "fetch",
   outcome |-> "none"]

\* initNotesAndReminders(invoiceData), to the first await of fetchNotes and
\* of fetchReminders
initNotesAndReminders(p, invoiceData) ==
  LET counted == [p EXCEPT !.inits = @ + 1]
      account == invoiceData.AccountNumber
  IN IF Falsy(invoiceData.InvoiceID) THEN counted
     ELSE IF ~Falsy(account) THEN
       [counted EXCEPT
          !.currentInvoiceId = invoiceData.InvoiceID,
          !.currentAccountNumber = account,
          !.notesList = toggleLoading(@, TRUE),
          !.remindersList = toggleLoading(@, TRUE),
          !.fetches = @ \cup { Fetching(p.inits + 1, "notes", account[1]),
                               Fetching(p.inits + 1, "reminders", account[1]) }]
     ELSE
       [counted EXCEPT
          !.currentInvoiceId = invoiceData.InvoiceID,
          !.currentAccountNumber = account,
          !.notesList = showError(displayed(p.currentNotes)),
          !.remindersList = showError(displayed(p.currentReminders))]

\* variant: the records of a fetch are kept only when its account is still
\* the current one
storeRecordsOfCurrent(p, f, records) ==
  IF p.currentAccountNumber # Str(f.accountNumber) THEN p
  ELSE IF f.kind = "notes"
  THEN [p EXCEPT !.currentNotes = records,
                 !.notesList = toggleLoading(displayed(records), FALSE)]
  ELSE [p EXCEPT !.currentReminders = records,
                 !.remindersList = toggleLoading(displayed(records), FALSE)]

\* currentNotes = ...; displayNotes(); and toggleLoading(..., false) of the
\* finally block, and the same for the reminders
storeRecords(p, f, records) ==
  IF f.kind = "notes"
  THEN [p EXCEPT !.currentNotes = records,
                 !.notesList = toggleLoading(displayed(records), FALSE)]
  ELSE [p EXCEPT !.currentReminders = records,
                 !.remindersList = toggleLoading(displayed(records), FALSE)]

\* fetchNotes or fetchReminders from the response of its fetch to its next
\* await or to its end
fetchOnResponse(p, f, outcome) ==
  LET others == [p EXCEPT !.fetches = @ \ { f }] IN
  IF outcome \in { "failed", "not ok" } THEN storeRecords(others, f, << >>)
  ELSE [others EXCEPT !.fetches = @ \cup { [f EXCEPT !.stage = "json",
                                                    !.outcome = outcome] }]

\* fetchNotes or fetchReminders from the result of response.json() to its end
fetchOnJson(p, f) ==
  LET others == [p EXCEPT !.fetches = @ \ { f }] IN
  IF f.outcome = "records" THEN storeRecords(others, f, RecordsOf(f.kind, f.accountNumber))
  ELSE storeRecords(others, f, << >>)

\* the details of an invoice are opened
InitNotesAndReminders ==
  /\ page.inits < MaxInits
  /\ \E invoiceData \in Invoices : page' = initNotesAndReminders(page, invoiceData)
  /\ UNCHANGED << now, env, jar, auth, exhausted, inv, first, db >>

\* the response of a fetch arrives, or the fetch fails
FetchResponds ==
  /\ \E f \in page.fetches, outcome \in FetchOutcomes :
       /\ f.stage = "fetch"
       /\ page' = fetchOnResponse(page, f, outcome)
  /\ UNCHANGED << now, env, jar, auth, exhausted, inv, first, db >>

\* the body of a response has been read
JsonResolves ==
  /\ \E f \in page.fetches :
       /\ f.stage = "json"
       /\ page' = fetchOnJson(page, f)
  /\ UNCHANGED << now, env, jar, auth, exhausted, inv, first, db >>

PageInit ==
  /\ now = StartOfTime
  /\ env \in Envs
  /\ env.XERO_CLIENT_ID # Undefined /\ env.XERO_CLIENT_SECRET # Undefined /\ env.URL # Undefined
  /\ jar = << >>
  /\ auth = NoAuth
  /\ exhausted = FALSE
  /\ inv = Idle
  /\ first = NoAttempt
  /\ db = NoDb
  /\ page = LoadedPage

PageNext ==
  \/ InitNotesAndReminders
  \/ FetchResponds
  \/ JsonResolves

\* the notes module of one page
PageSpec == PageInit /\ [][PageNext]_vars

\* ------------------------------------------------------------------------
\* The notes module as the claims speak of it
\* ------------------------------------------------------------------------

\* the records are all of this account
AllOf(records, accountNumber) ==
  \A i \in 1..Len(records) : Str(records[i].accountNumber) = accountNumber

\* C30: once no fetch of the page is in flight, the notes and the reminders
\* the page holds, and the lists it shows, are records of the current
\* account: also when the details of an invoice of account B were opened
\* while the fetches for account A were in flight, and whatever the order in
\* which the responses arrived.
C30_RecordsOfCurrentAccount ==
  (page.fetches = {} /\ ~Falsy(page.currentAccountNumber)) =>
    /\ AllOf(page.currentNotes, page.currentAccountNumber)
    /\ AllOf(page.currentReminders, page.currentAccountNumber)
    /\ AllOf(page.notesList.items, page.currentAccountNumber)
    /\ AllOf(page.remindersList.items, page.currentAccountNumber)

====
